---- MODULE Spec2Model ----
(***************************************************************************)
(* A model of the DTD-based XML validator (services/geminiService.ts).     *)
(*                                                                         *)
(* Texts (the DTD text, the XML text, content specs, element names, the    *)
(* source of a RegExp) are sequences of one-character strings, so that the *)
(* scanners of the program work on characters here as they do there.       *)
(***************************************************************************)
EXTENDS Integers, Sequences, FiniteSets, TLC

LF == "\n"
CR == "\r"
SP == " "
\* The control character U+0001 that prefixes every name of a child signature.
SOH == "SOH"

LineTerminators == {LF, CR}
\* The characters of \s that the texts of this model use.
WhiteSpace == {SP, "\t", LF, CR}
Upper == {"A", "B", "C", "D", "E", "F", "G", "H", "I", "J", "K", "L", "M",
          "N", "O", "P", "Q", "R", "S", "T", "U", "V", "W", "X", "Y", "Z"}
Lower == {"a", "b", "c", "d", "e", "f", "g", "h", "i", "j", "k", "l", "m",
          "n", "o", "p", "q", "r", "s", "t", "u", "v", "w", "x", "y", "z"}
Digits == {"0", "1", "2", "3", "4", "5", "6", "7", "8", "9"}
\* \w of a JavaScript RegExp.
WordChars == Upper \cup Lower \cup Digits \cup {"_"}

\* s[m..n] with the bounds clamped to the text, as String.prototype.substring
\* clamps them (positions from 1, both ends included).
Slice(s, m, n) ==
    LET lo == IF m < 1 THEN 1 ELSE m
        hi == IF n > Len(s) THEN Len(s) ELSE n
    IN  IF lo > hi THEN <<>> ELSE SubSeq(s, lo, hi)

RECURSIVE Cat(_)
\* The concatenation of a sequence of sequences.
Cat(ss) == IF ss = <<>> THEN <<>> ELSE Head(ss) \o Cat(Tail(ss))

RECURSIVE Rep(_, _)
\* n copies of the sequence s.
Rep(s, n) == IF n <= 0 THEN <<>> ELSE s \o Rep(s, n - 1)

Max(a, b) == IF a >= b THEN a ELSE b

StartsWithAt(t, i, w) ==
    /\ i >= 1
    /\ i + Len(w) - 1 <= Len(t)
    /\ Slice(t, i, i + Len(w) - 1) = w

StartsWith(t, w) == StartsWithAt(t, 1, w)

EndsWith(t, w) == Len(w) <= Len(t) /\ StartsWithAt(t, Len(t) - Len(w) + 1, w)

RECURSIVE RunLen(_, _, _)
\* The length of the longest run of characters of class S that starts at t[i]
\* (a greedy S* of a RegExp).
RunLen(t, i, S) ==
    IF i <= Len(t) /\ t[i] \in S THEN 1 + RunLen(t, i + 1, S) ELSE 0

RECURSIVE RunLenNot(_, _, _)
\* The length of the longest run of characters outside S that starts at t[i].
RunLenNot(t, i, S) ==
    IF i <= Len(t) /\ t[i] \notin S THEN 1 + RunLenNot(t, i + 1, S) ELSE 0

\* String.prototype.trim
Trim(s) ==
    LET a == RunLen(s, 1, WhiteSpace)
        lastKept == CHOOSE k \in 0..Len(s) :
                        /\ k = 0 \/ s[k] \notin WhiteSpace
                        /\ \A j \in (k + 1)..Len(s) : s[j] \in WhiteSpace
    IN  IF a >= Len(s) THEN <<>> ELSE Slice(s, a + 1, lastKept)

\* s.replace(/\s+/g, '')
StripWs(s) == SelectSeq(s, LAMBDA c : c \notin WhiteSpace)

\* text.split(/\r\n|\r|\n/).length - 1: the line breaks of a text, a CR LF
\* pair counting as one.
LineBreakCount(t) ==
    Cardinality({k \in 1..Len(t) :
        \/ t[k] = LF
        \/ t[k] = CR /\ ~(k < Len(t) /\ t[k + 1] = LF)})

(***************************************************************************)
(* new RegExp(source) and RegExp.prototype.test.  The source is a sequence *)
(* of units: "^", "$", "(?:", ")", "|", "*", "+", "?", ".", an escape      *)
(* ("\\x01", or a backslash and a syntax character), or a literal          *)
(* character.                                                              *)
(***************************************************************************)
\* The characters String.replace escapes in convertSpecToRegex.
RegexSyntaxChars ==
    {".", "*", "+", "?", "^", "$", "{", "}", "(", ")", "|", "[", "]", "\\"}

Quantifiers == {"*", "+", "?"}

OpenGroup == "(?:"

IsEscape(u) == u = "\\x01" \/ \E c \in RegexSyntaxChars : u = "\\" \o c

\* The character a literal unit or an escape matches.
UnitChar(u) ==
    IF u = "\\x01" THEN SOH
    ELSE IF \E c \in RegexSyntaxChars : u = "\\" \o c
         THEN CHOOSE c \in RegexSyntaxChars : u = "\\" \o c
         ELSE u

RECURSIVE RegExpScan(_, _, _, _)
\* The syntax check of the RegExp constructor, left to right: depth is the
\* number of open groups, q says what a quantifier would apply to ("none":
\* nothing to repeat, "atom", "quant": a quantifier that "?" may make lazy,
\* "lazy").
RegExpScan(units, i, depth, q) ==
    IF i > Len(units) THEN depth = 0
    ELSE LET u == units[i] IN
         CASE u = OpenGroup -> RegExpScan(units, i + 1, depth + 1, "none")
           [] u = ")" -> depth > 0 /\ RegExpScan(units, i + 1, depth - 1, "atom")
           [] u = "|" -> RegExpScan(units, i + 1, depth, "none")
           [] u \in {"^", "$"} -> RegExpScan(units, i + 1, depth, "none")
           [] u \in {"*", "+"} ->
                q = "atom" /\ RegExpScan(units, i + 1, depth, "quant")
           [] u = "?" ->
                /\ q \in {"atom", "quant"}
                /\ RegExpScan(units, i + 1, depth,
                              IF q = "atom" THEN "quant" ELSE "lazy")
           [] OTHER -> RegExpScan(units, i + 1, depth, "atom")

\* new RegExp(source) does not throw a SyntaxError.
RegExpSyntaxOk(units) == RegExpScan(units, 1, 0, "none")

RECURSIVE CloseOf(_, _, _)
\* The index of the ")" that closes the group opened just before units[i],
\* depth counting the groups opened since.
CloseOf(units, i, depth) ==
    IF units[i] = OpenGroup THEN CloseOf(units, i + 1, depth + 1)
    ELSE IF units[i] = ")"
         THEN IF depth = 0 THEN i ELSE CloseOf(units, i + 1, depth - 1)
         ELSE CloseOf(units, i + 1, depth)

RECURSIVE TopBar(_, _, _, _)
\* The index of the first "|" of units[lo..hi] outside every group, 0 if none.
TopBar(units, lo, hi, depth) ==
    IF lo > hi THEN 0
    ELSE IF units[lo] = OpenGroup THEN TopBar(units, lo + 1, hi, depth + 1)
    ELSE IF units[lo] = ")" THEN TopBar(units, lo + 1, hi, depth - 1)
    ELSE IF units[lo] = "|" /\ depth = 0 THEN lo
    ELSE TopBar(units, lo + 1, hi, depth)

RECURSIVE Disjunction(_, _, _, _, _)
RECURSIVE Alternative(_, _, _, _, _)
RECURSIVE AtomOnce(_, _, _, _, _)
RECURSIVE AtomStar(_, _, _, _, _)

\* The positions (0..Len(subj), a position being the number of characters
\* consumed) at which a match of the disjunction units[lo..hi] can end when
\* it starts at a position of P.
Disjunction(units, subj, lo, hi, P) ==
    LET bar == TopBar(units, lo, hi, 0) IN
    IF bar = 0 THEN Alternative(units, subj, lo, hi, P)
    ELSE Alternative(units, subj, lo, bar - 1, P)
            \cup Disjunction(units, subj, bar + 1, hi, P)

\* One match of the atom units[lo..last] (a group when units[lo] opens one).
AtomOnce(units, subj, lo, last, P) ==
    LET u == units[lo] IN
    CASE u = OpenGroup -> Disjunction(units, subj, lo + 1, last - 1, P)
      [] u = "^" -> {p \in P : p = 0}
      [] u = "$" -> {p \in P : p = Len(subj)}
      [] u = "." -> {p + 1 : p \in {q \in P : q < Len(subj)
                                     /\ subj[q + 1] \notin LineTerminators}}
      [] OTHER -> {p + 1 : p \in {q \in P : q < Len(subj)
                                     /\ subj[q + 1] = UnitChar(u)}}

\* Zero or more matches of the atom: the least set that holds P and is closed
\* under one more match.
AtomStar(units, subj, lo, last, P) ==
    LET N == P \cup AtomOnce(units, subj, lo, last, P) IN
    IF N = P THEN P ELSE AtomStar(units, subj, lo, last, N)

\* A sequence of terms, each an atom and its quantifier.
Alternative(units, subj, lo, hi, P) ==
    IF lo > hi \/ P = {} THEN P
    ELSE LET last == IF units[lo] = OpenGroup
                     THEN CloseOf(units, lo + 1, 0) ELSE lo
             quant == IF last < hi /\ units[last + 1] \in Quantifiers
                      THEN units[last + 1] ELSE "1"
             lazy == quant # "1" /\ last + 1 < hi /\ units[last + 2] = "?"
             next == last + 1 + (IF quant = "1" THEN 0 ELSE 1)
                              + (IF lazy THEN 1 ELSE 0)
             R == CASE quant = "1" -> AtomOnce(units, subj, lo, last, P)
                    [] quant = "?" -> P \cup AtomOnce(units, subj, lo, last, P)
                    [] quant = "*" -> AtomStar(units, subj, lo, last, P)
                    [] quant = "+" ->
                         AtomStar(units, subj, lo, last,
                                  AtomOnce(units, subj, lo, last, P))
         IN  Alternative(units, subj, next, hi, R)

\* regex.test(subj) of a RegExp without flags: some match starts somewhere.
RegExpTest(units, subj) ==
    \E p \in 0..Len(subj) :
        Disjunction(units, subj, 1, Len(units), {p}) # {}

(***************************************************************************)
(* convertSpecToRegex                                                      *)
(***************************************************************************)
DtdDelimiters == {"(", ")", ",", "|", "*", "+", "?"}

RECURSIVE SplitOnDelimiters(_)
\* s.split(/([(),|*+?])/) without the empty strings the loop skips: runs of
\* other characters and the delimiters, each a token.
SplitOnDelimiters(s) ==
    IF s = <<>> THEN <<>>
    ELSE IF Head(s) \in DtdDelimiters
         THEN <<(<<Head(s)>>)>> \o SplitOnDelimiters(Tail(s))
         ELSE LET n == RunLenNot(s, 1, DtdDelimiters) IN
              <<Slice(s, 1, n)>> \o SplitOnDelimiters(Slice(s, n + 1, Len(s)))

\* t.replace(/[.*+?^${}()|[\]\\]/g, '\\$&')
EscapeName(t) ==
    [i \in 1..Len(t) |-> IF t[i] \in RegexSyntaxChars THEN "\\" \o t[i] ELSE t[i]]

\* The text one token adds to regexStr.
TokenToRegex(t) ==
    IF Len(t) = 1 /\ t[1] \in DtdDelimiters
    THEN CASE t[1] = "(" -> <<OpenGroup>>
           [] t[1] = ")" -> <<")">>
           [] t[1] = "," -> <<>>
           [] OTHER -> <<t[1]>>
    ELSE <<OpenGroup, "\\x01">> \o EscapeName(t) \o <<")">>

\* regexStr, the source the constructor is given.
RegexSource(spec) ==
    LET tokens == SplitOnDelimiters(StripWs(spec)) IN
    <<"^">> \o Cat([i \in 1..Len(tokens) |-> TokenToRegex(tokens[i])]) \o <<"$">>

\* convertSpecToRegex: the RegExp, or thrown = TRUE when the constructor
\* throws.
ConvertSpecToRegex(spec) ==
    LET src == RegexSource(spec) IN
    [thrown |-> ~RegExpSyntaxOk(src), units |-> src]

(***************************************************************************)
(* parseDtd                                                                *)
(***************************************************************************)
ElementKeyword == <<"<", "!", "E", "L", "E", "M", "E", "N", "T">>

\* [\w\-:.], the characters of a declared name.
DtdNameChars == WordChars \cup {"-", ":", "."}

\* One attempt of /<!ELEMENT\s+([\w\-:.]+)\s+([^>]+)>/ at dtd[i].  The name
\* and the white space around it are greedy runs; when nothing but ">"
\* follows the second run, the run gives its last character back to [^>]+.
ElementMatchAt(dtd, i) ==
    LET p1 == i + Len(ElementKeyword)
        w1 == RunLen(dtd, p1, WhiteSpace)
        p2 == p1 + w1
        n  == RunLen(dtd, p2, DtdNameChars)
        p3 == p2 + n
        w2 == RunLen(dtd, p3, WhiteSpace)
        p4 == p3 + w2
        r  == RunLenNot(dtd, p4, {">"})
        p5 == p4 + r
    IN  [ok |-> /\ StartsWithAt(dtd, i, ElementKeyword)
                /\ w1 >= 1 /\ n >= 1 /\ w2 >= 1
                /\ p5 <= Len(dtd)
                /\ (r >= 1 \/ w2 >= 2),
         tagName |-> Slice(dtd, p2, p3 - 1),
         spec |-> IF r >= 1 THEN Slice(dtd, p4, p5 - 1)
                  ELSE Slice(dtd, p4 - 1, p4 - 1),
         end |-> p5]

RECURSIVE CommentEnd(_, _)
\* For a "--" at s[i - 2], the index of the first "--" at or after s[i] with
\* no line terminator before it ('.' matches none), 0 if there is none.
CommentEnd(s, i) ==
    IF i + 1 > Len(s) THEN 0
    ELSE IF s[i] = "-" /\ s[i + 1] = "-" THEN i
    ELSE IF s[i] \in LineTerminators THEN 0
    ELSE CommentEnd(s, i + 1)

RECURSIVE RemoveComments(_)
\* spec.replace(/--.*?--/g, '')
RemoveComments(s) ==
    IF s = <<>> THEN <<>>
    ELSE LET e == IF StartsWith(s, <<"-", "-">>) THEN CommentEnd(s, 3) ELSE 0 IN
         IF e > 0 THEN RemoveComments(Slice(s, e + 2, Len(s)))
         ELSE <<Head(s)>> \o RemoveComments(Tail(s))

PcdataOpen == <<"(", "#", "P", "C", "D", "A", "T", "A">>

RECURSIVE SplitOn(_, _)
\* s.split(c): the pieces between the occurrences of the character c.
SplitOn(s, c) ==
    LET n == RunLenNot(s, 1, {c}) IN
    IF n >= Len(s) THEN <<s>>
    ELSE <<Slice(s, 1, n)>> \o SplitOn(Slice(s, n + 2, Len(s)), c)

\* cleanSpec.replace(/^\(#PCDATA\|/, '').replace(/\)\*?$/, '').split('|')
MixedParts(cleanSpec) ==
    LET a == IF StartsWith(cleanSpec, PcdataOpen \o <<"|">>)
             THEN Slice(cleanSpec, Len(PcdataOpen) + 2, Len(cleanSpec))
             ELSE cleanSpec
        b == IF EndsWith(a, <<")", "*">>) THEN Slice(a, 1, Len(a) - 2)
             ELSE IF EndsWith(a, <<")">>) THEN Slice(a, 1, Len(a) - 1)
             ELSE a
    IN  SplitOn(b, "|")

RECURSIVE NewSet(_)
\* new Set(parts): a JavaScript Set iterates in insertion order, so it is the
\* sequence of the first occurrences.
NewSet(parts) ==
    IF parts = <<>> THEN <<>>
    ELSE LET front == NewSet(Slice(parts, 1, Len(parts) - 1))
             x == parts[Len(parts)]
         IN  IF \E k \in 1..Len(front) : front[k] = x THEN front
             ELSE Append(front, x)

\* Set.prototype.has that finds every value.
SetHasAnything(set, x) == TRUE

\* set.has(x)
SetHas(set, x) == \E k \in 1..Len(set) : set[k] = x

\* OnCompileFailure with the fallback to ANY forgotten.
OnCompileFailureKeepsType(def) == def

\* What the catch of parseDtd leaves of a definition whose spec did not
\* compile.
OnCompileFailure(def) == [def EXCEPT !.type = "ANY"]

\* The DtdDefinition parseDtd builds for one match at offset index.
MakeDefinition(dtd, index, rawMatch) ==
    LET spec == RemoveComments(Trim(rawMatch))
        cleanSpec == StripWs(spec)
        def == [type |-> "CHILDREN", rawSpec |-> spec,
                line |-> LineBreakCount(Slice(dtd, 1, index - 1)) + 1,
                allowedElements |-> <<>>, hasRegex |-> FALSE, regex |-> <<>>]
    IN  IF cleanSpec = <<"E", "M", "P", "T", "Y">>
        THEN [def EXCEPT !.type = "EMPTY"]
        ELSE IF cleanSpec = <<"A", "N", "Y">>
        THEN [def EXCEPT !.type = "ANY"]
        ELSE IF cleanSpec = PcdataOpen \o <<")">>
        THEN [def EXCEPT !.type = "PCDATA"]
        ELSE IF StartsWith(cleanSpec, PcdataOpen)
        THEN LET parts == MixedParts(cleanSpec) IN
             [def EXCEPT !.type = "MIXED", !.allowedElements = NewSet(parts)]
        ELSE LET re == ConvertSpecToRegex(spec) IN
             IF re.thrown THEN OnCompileFailure(def)
             ELSE [def EXCEPT !.hasRegex = TRUE, !.regex = re.units]

\* definitions.set that leaves the definition a name already has.
MapSetKeepsFirst(m, key, val) ==
    [k \in DOMAIN m \cup {key} |-> IF k \in DOMAIN m THEN m[k] ELSE val]

\* definitions.set(tagName, def)
MapSet(m, key, val) ==
    [k \in DOMAIN m \cup {key} |-> IF k = key THEN val ELSE m[k]]

RECURSIVE ParseDtdFrom(_, _, _)
\* The loop of parseDtd with the RegExp's lastIndex at i - 1.
ParseDtdFrom(dtd, i, definitions) ==
    IF i > Len(dtd) THEN definitions
    ELSE LET m == ElementMatchAt(dtd, i) IN
         IF m.ok
         THEN ParseDtdFrom(dtd, m.end + 1,
                  MapSet(definitions, m.tagName, MakeDefinition(dtd, i, m.spec)))
         ELSE ParseDtdFrom(dtd, i + 1, definitions)

\* parseDtd: the definition table, a function from the declared names.
ParseDtd(dtd) == ParseDtdFrom(dtd, 1, <<>>)

(***************************************************************************)
(* The document DOMParser builds.  An element is a record of its tagName,  *)
(* its children (the child elements, in document order) and text, the data *)
(* of its direct TEXT_NODE children joined.  A node is named by its path:  *)
(* the indexes of the children that lead to it from the root, <<>> being   *)
(* the root.                                                               *)
(***************************************************************************)
Element(tagName, text, children) ==
    [tagName |-> tagName, text |-> text, children |-> children]

RECURSIVE NodeAt(_, _)
NodeAt(root, path) ==
    IF path = <<>> THEN root ELSE NodeAt(root.children[Head(path)], Tail(path))

RECURSIVE PreOrder(_, _)
\* The paths of the subtree of node (whose own path is path) in depth-first
\* pre-order, children in document order.
PreOrder(node, path) ==
    <<path>> \o Cat([i \in 1..Len(node.children) |->
                        PreOrder(node.children[i], Append(path, i))])

IsPrefix(p, q) == Len(p) <= Len(q) /\ Slice(q, 1, Len(p)) = p

(***************************************************************************)
(* mapElementLines                                                         *)
(***************************************************************************)
RECURSIVE SplitLines(_)
\* xmlStr.split(/\r\n|\r|\n/)
SplitLines(t) ==
    LET n == RunLenNot(t, 1, LineTerminators) IN
    IF n >= Len(t) THEN <<t>>
    ELSE LET skip == IF t[n + 1] = CR /\ n + 2 <= Len(t) /\ t[n + 2] = LF
                     THEN 2 ELSE 1
         IN  <<Slice(t, 1, n)>> \o SplitLines(Slice(t, n + 1 + skip, Len(t)))

\* An advance that leaves out the line break.
LineAdvanceNoBreak(line) == Len(line)

\* What the forEach adds to charCount for one line.
LineAdvance(line) == Len(line) + 1

RECURSIVE OffsetsFrom(_, _, _)
OffsetsFrom(lines, k, charCount) ==
    IF k > Len(lines) THEN <<>>
    ELSE <<charCount>> \o OffsetsFrom(lines, k + 1, charCount + LineAdvance(lines[k]))

\* lineOffsets: the offset (from 0) the code takes each line to start at.
LineOffsets(xmlStr) == OffsetsFrom(SplitLines(xmlStr), 1, 0)

RECURSIVE FindFrom(_, _, _)
\* The index of the first occurrence of w in t at or after t[i], 0 if none.
FindFrom(t, i, w) ==
    IF i + Len(w) - 1 > Len(t) THEN 0
    ELSE IF StartsWithAt(t, i, w) THEN i
    ELSE FindFrom(t, i + 1, w)

RECURSIVE MaskFrom(_, _, _, _)
\* t.replace(/open[\s\S]*?close/g, m => ' '.repeat(m.length)) from t[i] on.
MaskFrom(t, i, open, close) ==
    IF i > Len(t) THEN <<>>
    ELSE LET e == IF StartsWithAt(t, i, open)
                  THEN FindFrom(t, i + Len(open), close) ELSE 0
         IN  IF e > 0
             THEN Rep(<<SP>>, e + Len(close) - i)
                    \o MaskFrom(t, e + Len(close), open, close)
             ELSE <<t[i]>> \o MaskFrom(t, i + 1, open, close)

CommentOpen == <<"<", "!", "-", "-">>
CommentClose == <<"-", "-", ">">>
CdataOpen == <<"<", "!", "[", "C", "D", "A", "T", "A", "[">>
CdataClose == <<"]", "]", ">">>

\* maskedXml
MaskXml(xmlStr) ==
    LET noComments == MaskFrom(xmlStr, 1, CommentOpen, CommentClose) IN
    MaskFrom(noComments, 1, CdataOpen, CdataClose)

\* [a-zA-Z0-9_\-.:], the characters of a tag name for tagRegex.
TagNameChars == WordChars \cup {"-", ".", ":"}

RECURSIVE LineLoop(_, _, _, _)
\* The for loop that finds the line of an offset: the last i + 1 reached
\* before the first lineOffsets[i] above index.
LineLoop(lineOffsets, index, i, line) ==
    IF i >= Len(lineOffsets) THEN line
    ELSE IF index >= lineOffsets[i + 1]
         THEN LineLoop(lineOffsets, index, i + 1, i + 1)
         ELSE line

LineOfIndex(lineOffsets, index) == LineLoop(lineOffsets, index, 0, 1)

RECURSIVE TagScan(_, _, _)
\* The while loop over tagRegex = /<([a-zA-Z0-9_\-.:]+)[^>]*>/g with
\* lastIndex = i - 1: tagLocations.
TagScan(masked, lineOffsets, i) ==
    IF i > Len(masked) THEN <<>>
    ELSE LET n == IF masked[i] = "<" THEN RunLen(masked, i + 1, TagNameChars) ELSE 0
             close == IF n >= 1 THEN FindFrom(masked, i + 1 + n, <<">">>) ELSE 0
         IN  IF close > 0
             THEN <<[tagName |-> Slice(masked, i + 1, i + n),
                     index |-> i - 1,
                     line |-> LineOfIndex(lineOffsets, i - 1)]>>
                    \o TagScan(masked, lineOffsets, close + 1)
             ELSE TagScan(masked, lineOffsets, i + 1)

TagLocations(xmlStr) == TagScan(MaskXml(xmlStr), LineOffsets(xmlStr), 1)

\* A scan that starts at the first location whatever the cursor is.
ScanForwardFromStart(tagLocations, tempIndex, targetTag) ==
    LET hits == {k \in 0..(Len(tagLocations) - 1) :
                    tagLocations[k + 1].tagName = targetTag}
    IN  IF hits = {} THEN -1 ELSE CHOOSE k \in hits : \A j \in hits : k <= j

RECURSIVE ScanForward(_, _, _)
\* The inner while of traverse: the index (from 0) of the first location at
\* or after tempIndex whose tagName is targetTag, -1 if there is none.
ScanForward(tagLocations, tempIndex, targetTag) ==
    IF tempIndex >= Len(tagLocations) THEN -1
    ELSE IF tagLocations[tempIndex + 1].tagName = targetTag THEN tempIndex
    ELSE ScanForward(tagLocations, tempIndex + 1, targetTag)

RECURSIVE Traverse(_, _, _, _)
RECURSIVE TraverseChildren(_, _, _, _, _)

\* traverse(node): st holds lineMap (a function from the paths of the mapped
\* nodes) and matchIndex.  visits is a history of the calls: for each, the
\* node's path, matchIndex when the call starts (before) and when its scan
\* ends (after), and the index the node was matched at (-1 for none).
Traverse(node, path, tagLocations, st) ==
    LET found == ScanForward(tagLocations, st.matchIndex, node.tagName)
        after == IF found >= 0 THEN found + 1 ELSE st.matchIndex
        visit == [path |-> path, before |-> st.matchIndex, after |-> after,
                  found |-> found]
        own == [lineMap |-> IF found >= 0
                            THEN MapSet(st.lineMap, path, tagLocations[found + 1].line)
                            ELSE st.lineMap,
                matchIndex |-> after,
                visits |-> Append(st.visits, visit)]
    IN  TraverseChildren(node, path, tagLocations, 1, own)

TraverseChildren(node, path, tagLocations, k, st) ==
    IF k > Len(node.children) THEN st
    ELSE TraverseChildren(node, path, tagLocations, k + 1,
             Traverse(node.children[k], Append(path, k), tagLocations, st))

\* traverse(root) with let matchIndex = 0 and an empty lineMap.
TraverseRoot(xmlStr, root) ==
    Traverse(root, <<>>, TagLocations(xmlStr),
             [lineMap |-> <<>>, matchIndex |-> 0, visits |-> <<>>])

\* mapElementLines: lineMap.
MapElementLines(xmlStr, root) == TraverseRoot(xmlStr, root).lineMap

(***************************************************************************)
(* validateNode.  A diagnostic is a record: prefix is the sequence of its  *)
(* leading markers, kind and info stand for the free text of the message,  *)
(* and node is the path of the node the diagnostic is about (the message   *)
(* does not carry it; it is kept to state the order of the list).          *)
(***************************************************************************)
\* lineMap.get(node) || '?': 0 stands for '?'.
XmlLineOf(lineMap, path) ==
    IF path \in DOMAIN lineMap THEN lineMap[path] ELSE 0

\* prefix that never adds the DTD marker.
PrefixWithoutDtd(xmlLine, dtdLine) ==
    <<[marker |-> "XML", known |-> xmlLine # 0, line |-> xmlLine]>>

\* prefix: "[XML: <line>]", then " [DTD: <line>]" when dtdLine is truthy.  A
\* dtdLine of 0 stands for null.
Prefix(xmlLine, dtdLine) ==
    <<[marker |-> "XML", known |-> xmlLine # 0, line |-> xmlLine]>>
        \o (IF dtdLine # 0
            THEN <<[marker |-> "DTD", known |-> TRUE, line |-> dtdLine]>>
            ELSE <<>>)

Diagnostic(prefix, kind, tagName, info, path) ==
    [prefix |-> prefix, kind |-> kind, tagName |-> tagName, info |-> info,
     node |-> path]

ChildTags(node) == [i \in 1..Len(node.children) |-> node.children[i].tagName]

\* childSignature
ChildSignature(node) ==
    Cat([i \in 1..Len(node.children) |-> <<SOH>> \o node.children[i].tagName])

RECURSIVE CollapseWs(_)
\* rawSpec.replace(/\s+/g, ' ')
CollapseWs(s) ==
    IF s = <<>> THEN <<>>
    ELSE IF Head(s) \in WhiteSpace
         THEN LET n == RunLen(s, 1, WhiteSpace) IN
              <<SP>> \o CollapseWs(Slice(s, n + 1, Len(s)))
         ELSE <<Head(s)>> \o CollapseWs(Tail(s))

\* hasNonWhitespaceText that takes every text for white space.
HasNonWhitespaceTextNever(node) == FALSE

\* textContent.trim().length > 0
HasNonWhitespaceText(node) == Trim(node.text) # <<>>

\* The errors the switch on def.type pushes for the node itself.
OwnErrors(node, path, def, prefix) ==
    LET tag == node.tagName
        kids == ChildTags(node)
        textError ==
            IF HasNonWhitespaceText(node)
            THEN <<Diagnostic(prefix, "text", tag,
                       <<Slice(Trim(node.text), 1,
                                IF Len(Trim(node.text)) < 20
                                THEN Len(Trim(node.text)) ELSE 20)>>, path)>>
            ELSE <<>>
        structureError ==
            IF def.hasRegex /\ ~RegExpTest(def.regex, ChildSignature(node))
            THEN <<Diagnostic(prefix, "structure", tag,
                       <<CollapseWs(def.rawSpec)>> \o kids, path)>>
            ELSE <<>>
    IN  CASE def.type = "EMPTY" ->
               IF Len(kids) > 0 \/ HasNonWhitespaceText(node)
               THEN <<Diagnostic(prefix, "empty", tag, <<>>, path)>>
               ELSE <<>>
          [] def.type = "PCDATA" ->
               IF Len(kids) > 0
               THEN <<Diagnostic(prefix, "pcdata", tag, <<>>, path)>>
               ELSE <<>>
          [] def.type = "MIXED" ->
               Cat([i \in 1..Len(kids) |->
                      IF ~SetHas(def.allowedElements, kids[i])
                      THEN <<Diagnostic(prefix, "mixed", tag,
                                 <<kids[i]>> \o def.allowedElements, path)>>
                      ELSE <<>>])
          [] def.type = "CHILDREN" -> textError \o structureError
          [] OTHER -> <<>>

RECURSIVE ValidateNodeIntoUndefined(_, _, _, _)
\* validateNode without the early return for an undefined element.
ValidateNodeIntoUndefined(node, path, definitions, lineMap) ==
    LET defined == node.tagName \in DOMAIN definitions
        prefix == Prefix(XmlLineOf(lineMap, path),
                         IF defined THEN definitions[node.tagName].line ELSE 0)
    IN  (IF ~defined
         THEN <<Diagnostic(prefix, "undefined", node.tagName, <<>>, path)>>
         ELSE OwnErrors(node, path, definitions[node.tagName], prefix))
            \o Cat([i \in 1..Len(node.children) |->
                      ValidateNodeIntoUndefined(node.children[i], Append(path, i),
                                                definitions, lineMap)])

RECURSIVE ValidateNodePostOrder(_, _, _, _)
\* validateNode with the recursion before the switch.
ValidateNodePostOrder(node, path, definitions, lineMap) ==
    LET defined == node.tagName \in DOMAIN definitions
        prefix == Prefix(XmlLineOf(lineMap, path),
                         IF defined THEN definitions[node.tagName].line ELSE 0)
    IN  IF ~defined
        THEN <<Diagnostic(prefix, "undefined", node.tagName, <<>>, path)>>
        ELSE Cat([i \in 1..Len(node.children) |->
                    ValidateNodePostOrder(node.children[i], Append(path, i),
                                          definitions, lineMap)])
               \o OwnErrors(node, path, definitions[node.tagName], prefix)

RECURSIVE ValidateNodeStopsAtFirst(_, _, _, _)
\* validateNode returning at the first child that has errors.
ValidateNodeStopsAtFirst(node, path, definitions, lineMap) ==
    LET defined == node.tagName \in DOMAIN definitions
        prefix == Prefix(XmlLineOf(lineMap, path),
                         IF defined THEN definitions[node.tagName].line ELSE 0)
        ofChild == [i \in 1..Len(node.children) |->
                      ValidateNodeStopsAtFirst(node.children[i], Append(path, i),
                                               definitions, lineMap)]
        bad == {i \in 1..Len(node.children) : ofChild[i] # <<>>}
    IN  IF ~defined
        THEN <<Diagnostic(prefix, "undefined", node.tagName, <<>>, path)>>
        ELSE OwnErrors(node, path, definitions[node.tagName], prefix)
               \o (IF bad = {} THEN <<>>
                   ELSE ofChild[CHOOSE i \in bad : \A j \in bad : i <= j])

RECURSIVE ValidateNode(_, _, _, _)
\* validateNode: the errors of the node at path and of its subtree.
ValidateNode(node, path, definitions, lineMap) ==
    LET defined == node.tagName \in DOMAIN definitions
        prefix == Prefix(XmlLineOf(lineMap, path),
                         IF defined THEN definitions[node.tagName].line ELSE 0)
    IN  IF ~defined
        THEN <<Diagnostic(prefix, "undefined", node.tagName, <<>>, path)>>
        ELSE OwnErrors(node, path, definitions[node.tagName], prefix)
               \o Cat([i \in 1..Len(node.children) |->
                         ValidateNode(node.children[i], Append(path, i),
                                      definitions, lineMap)])

(***************************************************************************)
(* The inputs.  A DTD text is written from a sequence of declarations, an  *)
(* XML text from a tree with its layout; the program reads only the text   *)
(* (field text), the structure it was written from is what the properties  *)
(* compare the program's answers with.                                     *)
(***************************************************************************)
\* Bounds of the enumerated inputs.
MaxNodes == 3
MaxTextNodes == 2
MaxGap == 4
MaxDtdGap == 2

A == <<"A">>
B == <<"B">>
C == <<"C">>
BC == <<"B", "C">>
ParserErrorTag == <<"p", "a", "r", "s", "e", "r", "e", "r", "r", "o", "r">>

EolLF == <<LF>>
EolCRLF == <<CR, LF>>

\* Tokens of content specs.
LP == <<"(">>
RP == <<")">>
Comma == <<",">>
Bar == <<"|">>
Star == <<"*">>
Plus == <<"+">>
Opt == <<"?">>
KwEmpty == <<"E", "M", "P", "T", "Y">>
KwAny == <<"A", "N", "Y">>
KwPcdata == <<"#", "P", "C", "D", "A", "T", "A">>
SpecComment == <<"-", "-", "x", "-", "-">>
\* A line break inside a spec (only in the last declaration of a DTD text).
Break == <<LF>>

SpecEmpty == <<KwEmpty>>
SpecAny == <<KwAny>>
SpecPcdata == <<LP, KwPcdata, RP>>
SpecMixedB == <<LP, KwPcdata, Bar, B, RP, Star>>

\* Element-content specs, well-formed and not.
ChildrenSpecs ==
    { <<LP, B, Comma, C, RP>>,
      <<LP, B, Bar, C, RP>>,
      <<LP, B, Bar, C, RP, Star>>,
      <<LP, B, Plus, Comma, C, Opt, RP>>,
      <<LP, B, Comma, LP, C, Bar, B, RP, Star, RP>>,
      <<LP, C, Comma, B, RP>>,
      <<B, Bar, C>>,
      <<B, Comma, C>>,
      <<LP, B, Comma, C>>,
      <<Star, B>> }

Decl(name, toks, nl) == [name |-> name, toks |-> toks, spaced |-> FALSE, nl |-> nl]

RECURSIVE Join(_, _)
Join(toks, sep) ==
    IF toks = <<>> THEN <<>>
    ELSE IF Len(toks) = 1 THEN toks[1]
    ELSE toks[1] \o sep \o Join(Tail(toks), sep)

SpecText(d) == Join(d.toks, IF d.spaced THEN <<SP>> ELSE <<>>)

DeclText(d) == ElementKeyword \o <<SP>> \o d.name \o <<SP>> \o SpecText(d) \o <<">">>

DtdText(decls, eol) ==
    Cat([i \in 1..Len(decls) |-> Rep(eol, decls[i].nl) \o DeclText(decls[i])])

MakeDtd(decls, eol) == [decls |-> decls, eol |-> eol, text |-> DtdText(decls, eol)]

DtdInputs ==
    { MakeDtd(<<Decl(A, s, 0), Decl(B, SpecPcdata, 1), Decl(C, SpecEmpty, 1)>>, EolLF) :
        s \in ChildrenSpecs }
    \cup
    { MakeDtd(<<Decl(A, <<LP, B, Comma, C, RP>>, g), Decl(B, SpecPcdata, 1),
                Decl(C, SpecPcdata, 1)>>, eol) :
        g \in 0..MaxDtdGap, eol \in {EolLF, EolCRLF} }
    \cup
    { MakeDtd(<<Decl(A, SpecMixedB, 0), Decl(B, SpecEmpty, 1), Decl(C, SpecAny, 1)>>, EolLF),
      MakeDtd(<<Decl(A, SpecAny, 0), Decl(B, SpecEmpty \o <<SpecComment>>, 1)>>, EolLF),
      MakeDtd(<<Decl(A, SpecEmpty, 0), Decl(B, SpecPcdata, 1),
                Decl(C, <<LP, B, Bar, C, RP, Star>>, 1)>>, EolLF),
      MakeDtd(<<Decl(A, <<LP, C, Comma, B, RP>>, 1)>>, EolLF),
      MakeDtd(<<Decl(A, SpecPcdata, 0), Decl(B, SpecAny, 1), Decl(C, SpecAny, 1)>>, EolLF),
      MakeDtd(<<Decl(A, SpecEmpty, 0), Decl(A, <<LP, B, Comma, C, RP>>, 1),
                Decl(B, SpecAny, 1), Decl(C, SpecAny, 1)>>, EolLF),
      MakeDtd(<<Decl(B, <<LP, C, RP>>, 0), Decl(A, <<LP, B, Comma, C>>, 1),
                Decl(C, SpecEmpty, 1)>>, EolLF),
      MakeDtd(<<[Decl(A, <<LP, B, Comma, C, RP>>, 0) EXCEPT !.spaced = TRUE],
                Decl(B, SpecPcdata, 1), Decl(BC, SpecEmpty, 1),
                [Decl(C, SpecMixedB, 1) EXCEPT !.spaced = TRUE]>>, EolCRLF),
      MakeDtd(<<>>, EolLF),
      MakeDtd(<<Decl(A, <<>>, 1)>>, EolLF),
      MakeDtd(<<Decl(A, SpecMixedB, 0),
                Decl(B, <<LP, Break, KwPcdata, Break, RP>>, 1)>>, EolLF),
      MakeDtd(<<Decl(B, SpecEmpty, 0),
                [Decl(A, <<LP, KwPcdata, Bar, Break, B, Bar, C, RP, Star>>, 1)
                    EXCEPT !.spaced = TRUE]>>, EolLF),
      MakeDtd(<<Decl(A, <<LP, KwPcdata, RP, Star>>, 0),
                Decl(B, <<LP, KwPcdata, Bar, B, Bar, C, RP>>, 1),
                Decl(C, <<KwEmpty, Break>>, 1)>>, EolLF) }

\* A node of an XML text as it is laid out: nl line breaks, then lead (a
\* comment, or nothing), then the start tag, the text, the children, the
\* end tag.
Laid(tag, nl, lead, text, kids) ==
    [tag |-> tag, nl |-> nl, lead |-> lead, text |-> text, kids |-> kids]

Plain(tag, kids) == Laid(tag, 0, <<>>, <<>>, kids)

RECURSIVE RenderNode(_, _)
RenderNode(n, eol) ==
    Rep(eol, n.nl) \o n.lead \o <<"<">> \o n.tag \o
    (IF n.kids = <<>> /\ n.text = <<>> THEN <<"/", ">">>
     ELSE <<">">> \o n.text
            \o Cat([i \in 1..Len(n.kids) |-> RenderNode(n.kids[i], eol)])
            \o <<"<", "/">> \o n.tag \o <<">">>)

RECURSIVE DomOf(_)
\* The element the parser builds for a laid-out node: the line breaks before
\* its children are white space text of the node, a comment is no text.
DomOf(n) ==
    Element(n.tag,
            n.text \o Cat([i \in 1..Len(n.kids) |-> Rep(<<LF>>, n.kids[i].nl)]),
            [i \in 1..Len(n.kids) |-> DomOf(n.kids[i])])

TreeInput(root, eol) ==
    [kind |-> "tree", eol |-> eol, root |-> root, text |-> RenderNode(root, eol),
     fault |-> <<>>]

FaultInput(text, fault) ==
    [kind |-> "fault", eol |-> EolLF, root |-> Plain(<<>>, <<>>), text |-> text,
     fault |-> fault]

NoRootInput ==
    [kind |-> "noroot", eol |-> EolLF, root |-> Plain(<<>>, <<>>), text |-> <<>>,
     fault |-> <<>>]

GenericNames == {A, B, C}

RECURSIVE TreesOfSize(_)
RECURSIVE ForestsOfSize(_)
\* The trees of exactly n nodes over GenericNames, laid out on one line.
TreesOfSize(n) ==
    { Plain(tag, kids) : tag \in GenericNames, kids \in ForestsOfSize(n - 1) }

\* The sequences of trees of m nodes in all.
ForestsOfSize(m) ==
    IF m = 0 THEN { <<>> }
    ELSE UNION { { <<t>> \o f : t \in TreesOfSize(k), f \in ForestsOfSize(m - k) } :
                   k \in 1..m }

TextHi == <<"h", "i">>
\* An element text that reads as a marker: [XML: 9]
TextMarker == <<"[", "X", "M", "L", ":", " ", "9", "]">>
CommentB == CommentOpen \o <<"<", "B", ">">> \o CommentClose
FaultText == <<"m", "i", "s", "m", "a", "t", "c", "h">>

\* Trees laid out one start tag per line, the root after g line breaks.
LinedTrees(g) ==
    { Laid(A, g, <<>>, <<>>, <<Laid(B, 1, <<>>, <<>>, <<>>), Laid(C, 1, <<>>, <<>>, <<>>)>>),
      Laid(A, g, <<>>, <<>>, <<Laid(C, 1, <<>>, <<>>, <<Laid(B, 1, <<>>, TextHi, <<>>)>>)>>),
      Laid(B, g, <<>>, <<>>, <<Laid(B, 0, <<>>, <<>>, <<>>), Laid(A, 2, <<>>, <<>>, <<>>)>>) }

\* <A><![CDATA[<!--]]><B/><!--x--><C/></A>: the literal data of A holds the
\* opening of a comment, and a comment follows the element B.
CdataThenComment ==
    [kind |-> "tree", eol |-> EolLF,
     root |-> Plain(A, <<Plain(B, <<>>), Plain(C, <<>>)>>),
     text |-> <<"<", "A", ">">> \o CdataOpen \o CommentOpen \o CdataClose
              \o <<"<", "B", "/", ">">> \o CommentOpen \o <<"x">> \o CommentClose
              \o <<"<", "C", "/", ">", "<", "/", "A", ">">>,
     fault |-> <<>>]

\* <?p <B>?>: a processing instruction whose data looks like a start tag.
PiB == <<"<", "?", "p", " ", "<", "B", ">", "?", ">">>

\* <!DOCTYPE A [<!ENTITY e "<B/>">]>: a document type declaration whose
\* internal subset declares an entity with a value that looks like a tag.
DoctypeB ==
    <<"<", "!", "D", "O", "C", "T", "Y", "P", "E", " ", "A", " ", "[",
      "<", "!", "E", "N", "T", "I", "T", "Y", " ", "e", " ", "\"",
      "<", "B", "/", ">", "\"", ">", "]", ">">>

\* <A><![CDATA[<A><!--]]><B/><!--x--><C/></A>: as CdataThenComment, with a
\* tag-like text in the literal data before the opening of a comment.
CdataTagComment ==
    [kind |-> "tree", eol |-> EolLF,
     root |-> Plain(A, <<Plain(B, <<>>), Plain(C, <<>>)>>),
     text |-> <<"<", "A", ">">> \o CdataOpen \o <<"<", "A", ">">> \o CommentOpen
              \o CdataClose \o <<"<", "B", "/", ">">> \o CommentOpen \o <<"x">>
              \o CommentClose \o <<"<", "C", "/", ">", "<", "/", "A", ">">>,
     fault |-> <<>>]

XmlInputs ==
    { TreeInput(t, EolLF) : t \in UNION { TreesOfSize(n) : n \in 1..MaxNodes } }
    \cup
    { TreeInput([t EXCEPT !.text = TextHi], EolLF) :
        t \in UNION { TreesOfSize(n) : n \in 1..MaxTextNodes } }
    \cup
    { TreeInput(t, eol) :
        t \in UNION { LinedTrees(g) : g \in 0..MaxGap }, eol \in {EolLF, EolCRLF} }
    \cup
    { TreeInput(Plain(A, <<Plain(BC, <<>>)>>), EolLF),
      TreeInput(Plain(A, <<Plain(BC, <<>>), Plain(C, <<>>)>>), EolLF),
      TreeInput(Laid(A, 0, <<>>, <<>>,
                     <<Laid(C, 1, CommentB, <<>>, <<>>), Laid(B, 1, <<>>, <<>>, <<>>)>>),
                EolLF),
      TreeInput(Plain(A, <<Plain(ParserErrorTag, <<>>)>>), EolLF),
      TreeInput(Laid(A, 0, <<>>, <<SP>>, <<>>), EolLF),
      CdataThenComment,
      TreeInput(Laid(A, 0, <<>>, TextMarker, <<>>), EolLF),
      CdataTagComment,
      TreeInput(Laid(A, 0, <<>>, <<>>,
                     <<Laid(C, 1, PiB, <<>>, <<>>), Laid(B, 1, <<>>, <<>>, <<>>)>>),
                EolLF),
      TreeInput(Laid(A, 0, DoctypeB, <<>>, <<Laid(B, 1, <<>>, <<>>, <<>>)>>), EolLF),
      TreeInput(Laid(A, 0, <<>>, TextHi, <<Plain(B, <<>>), Plain(C, <<>>)>>), EolLF),
      FaultInput(<<"<", "A", ">", "<", "B", ">", "<", "/", "A", ">">>, FaultText),
      NoRootInput }

(***************************************************************************)
(* DOMParser.parseFromString(xml, "text/xml"), the collaborator: for the   *)
(* text of a tree the document of that tree; for a text that is not        *)
(* well-formed a document whose root is a parsererror element that holds   *)
(* the fault's text.                                                       *)
(***************************************************************************)
ParseFromString(x) ==
    CASE x.kind = "tree" -> [hasRoot |-> TRUE, documentElement |-> DomOf(x.root)]
      [] x.kind = "fault" ->
           [hasRoot |-> TRUE,
            documentElement |-> Element(ParserErrorTag, x.fault, <<>>)]
      [] OTHER -> [hasRoot |-> FALSE, documentElement |-> Element(<<>>, <<>>, <<>>)]

\* xmlDoc.getElementsByTagName(name): the paths of the elements of that
\* name, in document order.
GetElementsByTagName(xmlDoc, name) ==
    IF ~xmlDoc.hasRoot THEN <<>>
    ELSE SelectSeq(PreOrder(xmlDoc.documentElement, <<>>),
                   LAMBDA p : NodeAt(xmlDoc.documentElement, p).tagName = name)

RECURSIVE TextContent(_)
\* node.textContent: the text of the node and of its descendants.
TextContent(node) ==
    node.text \o Cat([i \in 1..Len(node.children) |-> TextContent(node.children[i])])

(***************************************************************************)
(* validateXmlWithDtd.  One call makes a promise and sets a timer; the     *)
(* timer's callback runs the steps below in one piece, pc telling how far  *)
(* it is, and nothing else runs between its steps.                         *)
(***************************************************************************)
VARIABLES
    pc,           \* "idle", a step of the callback, "catch", or "done"
    dtd, xml,     \* the inputs of the call (the program reads their text)
    definitions,  \* the table parseDtd returned
    xmlDoc,       \* the document parseFromString returned
    lineMap,      \* the map mapElementLines returned
    errors,       \* the local list of diagnostics
    promise,      \* "none", "pending", "fulfilled" or "rejected"
    result,       \* the value the promise was resolved with
    resolveCalls, \* how often the call's resolve was called
    invoked,      \* the components the callback has called
    thrown,       \* whether a step of the callback threw
    timers,       \* the calls whose timer has not fired yet, oldest first
    settled,      \* the runs whose result the caller has received, in order
    dtdInput, xmlInput,  \* App: the texts of the two editors
    loading,      \* App: loading
    appResult,    \* App: result (the displayed result, or Null)
    error,        \* App: error (the displayed error, or Null)
    history,      \* App: history, newest first
    flights,      \* App: the calls of handleValidate that wait at the await,
                  \* each with the texts its closure holds
    clicks,       \* App: how often handleValidate was called
    generated,    \* App: how many ids generateId has given
    changes,      \* App: how often a handler other than handleValidate ran
    lastUser,     \* App: the last handler the user started
    touched,      \* App: whether a handler changed the inputs after the
                  \* last handleValidate began and before it ended
    sheetLoading, \* SheetManager: loading
    fileList,     \* SheetManager: fileList
    store,        \* the names of the files in the storage
    ops,          \* SheetManager: the handlers that wait at an await
    started       \* SheetManager: how many handlers were started

\* The state of App.
app == <<dtdInput, xmlInput, loading, appResult, error, history, flights,
         clicks, generated, changes, lastUser, touched>>

\* The state of SheetManager and of the storage.
sheet == <<sheetLoading, fileList, store, ops, started>>

vars == <<pc, dtd, xml, definitions, xmlDoc, lineMap, errors, promise, result,
          resolveCalls, invoked, thrown, timers, settled, app, sheet>>

\* What a run of validateXmlWithDtd leaves alone: the state of its callers.
callers == <<timers, settled, app, sheet>>

\* null
Null == [null |-> TRUE]

NoDocument == [hasRoot |-> FALSE, documentElement |-> Element(<<>>, <<>>, <<>>)]

ValidationResult(isValid, errs, comment, count) ==
    [isValid |-> isValid, errors |-> errs,
     generalComment |-> [text |-> comment, count |-> count]]

NoResult == ValidationResult(FALSE, <<>>, "", 0)

\* A diagnostic that is about no node: it has no marker.
Message(kind, info) == Diagnostic(<<>>, kind, <<>>, info, <<>>)

\* NoDefinitions with the test for an empty table lost.
NoDefinitionsNever(defs) == FALSE

\* NoDefinitions on a table that outlives the run and keeps the definitions
\* of the earlier runs.
NoDefinitionsSinceStart(defs) ==
    /\ DOMAIN defs = {}
    /\ \A k \in 1..Len(settled) : settled[k].dtd.decls = <<>>

\* definitions.size === 0
NoDefinitions(defs) == DOMAIN defs = {}

NoDefinitionsResult ==
    ValidationResult(FALSE, <<Message("No valid ELEMENT definitions found in DTD.", <<>>)>>,
                     "DTD parsing failed or input was empty.", 0)

\* HasParserErrors with the test for a parsererror element lost.
HasParserErrorsNever(doc) == FALSE

\* parserErrors.length > 0
HasParserErrors(doc) == GetElementsByTagName(doc, ParserErrorTag) # <<>>

\* The result for a document that holds a parsererror element: the message
\* carries parserErrors[0].textContent.
SyntaxErrorResult(doc) ==
    LET first == GetElementsByTagName(doc, ParserErrorTag)[1] IN
    ValidationResult(FALSE,
        <<Message("XML Syntax Error", <<TextContent(NodeAt(doc.documentElement, first))>>)>>,
        "The XML document is not well-formed.", 0)

\* FinalResult that takes a single error for a success.
FinalResultMiscounts(errs) ==
    LET isValid == Len(errs) <= 1 IN
    ValidationResult(isValid, errs,
        IF isValid THEN "Validation Successful." ELSE "Validation Failed.",
        IF isValid THEN 0 ELSE Len(errs))

\* FinalResult on a list of diagnostics that outlives the run and still
\* holds those of the run before.
FinalResultWithEarlier(errs) ==
    LET all == IF settled = <<>> THEN errs
               ELSE settled[Len(settled)].result.errors \o errs
    IN  ValidationResult(Len(all) = 0, all,
            IF Len(all) = 0 THEN "Validation Successful." ELSE "Validation Failed.",
            Len(all))

\* The result of a run that reached its end.
FinalResult(errs) ==
    LET isValid == Len(errs) = 0 IN
    ValidationResult(isValid, errs,
        IF isValid THEN "Validation Successful." ELSE "Validation Failed.",
        IF isValid THEN 0 ELSE Len(errs))

\* CatchResult that reports what the run had collected.
CatchResultKeepsErrors(errs) ==
    ValidationResult(Len(errs) = 0, errs,
                     "An unexpected error occurred during validation.", 0)

\* The result the catch block resolves with.
CatchResult(errs) ==
    ValidationResult(FALSE, <<Message("Internal Validator Error", <<>>)>>,
                     "An unexpected error occurred during validation.", 0)

TypeOK ==
    /\ pc \in {"idle", "parseDtd", "parseXml", "mapLines", "validate", "finish",
               "catch", "done"}
    /\ promise \in {"none", "pending", "fulfilled", "rejected"}
    /\ resolveCalls \in Nat
    /\ invoked \subseteq {"parseDtd", "DOMParser", "mapElementLines", "validateNode"}
    /\ thrown \in BOOLEAN

Init ==
    /\ pc = "idle"
    /\ dtd = MakeDtd(<<>>, EolLF)
    /\ xml = NoRootInput
    /\ definitions = <<>>
    /\ xmlDoc = NoDocument
    /\ lineMap = <<>>
    /\ errors = <<>>
    /\ promise = "none"
    /\ result = NoResult
    /\ resolveCalls = 0
    /\ invoked = {}
    /\ thrown = FALSE
    /\ timers = <<>>
    /\ settled = <<>>
    /\ dtdInput = MakeDtd(<<>>, EolLF)
    /\ xmlInput = NoRootInput
    /\ loading = FALSE
    /\ appResult = Null
    /\ error = Null
    /\ history = <<>>
    /\ flights = <<>>
    /\ clicks = 0
    /\ generated = 0
    /\ changes = 0
    /\ lastUser = "none"
    /\ touched = FALSE
    /\ sheetLoading = FALSE
    /\ fileList = {}
    /\ store = {}
    /\ ops = {}
    /\ started = 0

\* A callback that ends without calling resolve.
ResolveNever(value) ==
    /\ pc' = "done"
    /\ UNCHANGED <<promise, result, resolveCalls>>

\* resolve(value): it settles a pending promise; a later call changes nothing.
Resolve(value) ==
    /\ resolveCalls' = resolveCalls + 1
    /\ promise' = IF promise = "pending" THEN "fulfilled" ELSE promise
    /\ result' = IF promise = "pending" THEN value ELSE result
    /\ pc' = "done"

\* validateXmlWithDtd(d, x) up to the timer: a new promise, pending, and the
\* locals of a new run.
Call ==
    /\ pc = "idle"
    /\ \E d \in DtdInputs, x \in XmlInputs :
          /\ dtd' = d
          /\ xml' = x
    /\ pc' = "parseDtd"
    /\ promise' = "pending"
    /\ definitions' = <<>>
    /\ xmlDoc' = NoDocument
    /\ lineMap' = <<>>
    /\ errors' = <<>>
    /\ result' = NoResult
    /\ resolveCalls' = 0
    /\ invoked' = {}
    /\ thrown' = FALSE
    /\ UNCHANGED callers

\* 1. Parse DTD
ParseDtdStep ==
    /\ pc = "parseDtd"
    /\ invoked' = invoked \cup {"parseDtd"}
    /\ definitions' = ParseDtd(dtd.text)
    /\ IF NoDefinitions(definitions')
       THEN Resolve(NoDefinitionsResult)
       ELSE pc' = "parseXml" /\ UNCHANGED <<promise, result, resolveCalls>>
    /\ UNCHANGED <<dtd, xml, xmlDoc, lineMap, errors, thrown>>
    /\ UNCHANGED callers

\* 2. Parse XML; then either the early return, or the choice between the
\* branches of "if (root)".
ParseXmlStep ==
    /\ pc = "parseXml"
    /\ invoked' = invoked \cup {"DOMParser"}
    /\ xmlDoc' = ParseFromString(xml)
    /\ IF HasParserErrors(xmlDoc')
       THEN Resolve(SyntaxErrorResult(xmlDoc')) /\ UNCHANGED errors
       ELSE /\ UNCHANGED <<promise, result, resolveCalls>>
            /\ IF xmlDoc'.hasRoot
               THEN pc' = "mapLines" /\ UNCHANGED errors
               ELSE /\ pc' = "finish"
                    /\ errors' = Append(errors,
                                   Message("XML document has no root element.", <<>>))
    /\ UNCHANGED <<dtd, xml, definitions, lineMap, thrown>>
    /\ UNCHANGED callers

\* 3. const lineMap = mapElementLines(xml, root)
MapLinesStep ==
    /\ pc = "mapLines"
    /\ invoked' = invoked \cup {"mapElementLines"}
    /\ lineMap' = MapElementLines(xml.text, xmlDoc.documentElement)
    /\ pc' = "validate"
    /\ UNCHANGED <<dtd, xml, definitions, xmlDoc, errors, promise, result,
                   resolveCalls, thrown>>
    /\ UNCHANGED callers

\* errors.push(...validateNode(root, definitions, lineMap))
ValidateStep ==
    /\ pc = "validate"
    /\ invoked' = invoked \cup {"validateNode"}
    /\ errors' = errors \o ValidateNode(xmlDoc.documentElement, <<>>, definitions, lineMap)
    /\ pc' = "finish"
    /\ UNCHANGED <<dtd, xml, definitions, xmlDoc, lineMap, promise, result,
                   resolveCalls, thrown>>
    /\ UNCHANGED callers

\* The resolve at the end of the try block.
FinishStep ==
    /\ pc = "finish"
    /\ Resolve(FinalResult(errors))
    /\ UNCHANGED <<dtd, xml, definitions, xmlDoc, lineMap, errors, invoked, thrown>>
    /\ UNCHANGED callers

StepComponent(p) ==
    CASE p = "parseDtd" -> "parseDtd"
      [] p = "parseXml" -> "DOMParser"
      [] p = "mapLines" -> "mapElementLines"
      [] OTHER -> "validateNode"

\* A step of the try block throws (an exception of the runtime, such as the
\* stack running out in a recursion): control goes to the catch block and the
\* step assigns nothing.
Throw ==
    /\ pc \in {"parseDtd", "parseXml", "mapLines", "validate"}
    /\ invoked' = invoked \cup {StepComponent(pc)}
    /\ thrown' = TRUE
    /\ pc' = "catch"
    /\ UNCHANGED <<dtd, xml, definitions, xmlDoc, lineMap, errors, promise, result,
                   resolveCalls>>
    /\ UNCHANGED callers

\* catch (err)
CatchStep ==
    /\ pc = "catch"
    /\ Resolve(CatchResult(errors))
    /\ UNCHANGED <<dtd, xml, definitions, xmlDoc, lineMap, errors, invoked, thrown>>
    /\ UNCHANGED callers

Next ==
    \/ Call
    \/ ParseDtdStep
    \/ ParseXmlStep
    \/ MapLinesStep
    \/ ValidateStep
    \/ FinishStep
    \/ Throw
    \/ CatchStep

Spec == Init /\ [][Next]_vars

\* The callback takes a step: pc moves on.  Every step of Next in a state
\* where the callback is running is such a step, and one is always possible
\* there.
CallbackStep ==
    /\ pc \in {"parseDtd", "parseXml", "mapLines", "validate", "finish", "catch"}
    /\ pc' \in {"parseXml", "mapLines", "validate", "finish", "catch", "done"}
    /\ pc' # pc

\* The callback, once the timer has started it, runs to its end: it is one
\* synchronous function, and each of its loops is over the matches of a text
\* or the nodes of a tree.
LiveSpec == Init /\ [][Next]_vars /\ WF_pc(CallbackStep)

(***************************************************************************)
(* A caller with several runs.  validateXmlWithDtd only makes the promise  *)
(* and sets the timer; the timers fire in the order they were set, one     *)
(* callback runs at a time, to its end, and the caller that awaits the     *)
(* promise receives the result after it.                                   *)
(***************************************************************************)
MaxRuns == 3

RunDtds ==
    { MakeDtd(<<>>, EolLF),
      MakeDtd(<<Decl(A, <<LP, B, Comma, C, RP>>, 0), Decl(B, SpecPcdata, 1),
                Decl(C, SpecPcdata, 1)>>, EolLF) }

RunXmls ==
    { TreeInput(Plain(A, <<Plain(B, <<>>), Plain(C, <<>>)>>), EolLF),
      TreeInput(Plain(A, <<Plain(C, <<>>), Plain(A, <<>>)>>), EolLF),
      FaultInput(<<"<", "A", ">", "<", "B", ">", "<", "/", "A", ">">>, FaultText) }

\* validateXmlWithDtd(d, x): setTimeout(callback, 400)
Schedule ==
    /\ pc = "idle"
    /\ Len(timers) + Len(settled) < MaxRuns
    /\ \E d \in RunDtds, x \in RunXmls :
          timers' = Append(timers, [dtd |-> d, xml |-> x])
    /\ UNCHANGED <<pc, dtd, xml, definitions, xmlDoc, lineMap, errors, promise,
                   result, resolveCalls, invoked, thrown, settled, app, sheet>>

\* The oldest timer fires: its callback starts, with the texts of its call
\* and a new list of errors.
Fire ==
    /\ pc = "idle"
    /\ timers # <<>>
    /\ dtd' = Head(timers).dtd
    /\ xml' = Head(timers).xml
    /\ timers' = Tail(timers)
    /\ pc' = "parseDtd"
    /\ promise' = "pending"
    /\ errors' = <<>>
    /\ result' = NoResult
    /\ resolveCalls' = 0
    /\ invoked' = {}
    /\ thrown' = FALSE
    /\ UNCHANGED <<definitions, xmlDoc, lineMap, settled, app, sheet>>

\* const validationResult = await validateXmlWithDtd(dtdInput, xmlInput): the
\* caller receives the result; the locals of the callback are gone.
Deliver ==
    /\ pc = "done"
    /\ settled' = Append(settled, [dtd |-> dtd, xml |-> xml, thrown |-> thrown,
                                   result |-> result])
    /\ pc' = "idle"
    /\ dtd' = MakeDtd(<<>>, EolLF)
    /\ xml' = NoRootInput
    /\ definitions' = <<>>
    /\ xmlDoc' = NoDocument
    /\ lineMap' = <<>>
    /\ errors' = <<>>
    /\ promise' = "none"
    /\ result' = NoResult
    /\ resolveCalls' = 0
    /\ invoked' = {}
    /\ thrown' = FALSE
    /\ UNCHANGED <<timers, app, sheet>>

NextRuns ==
    \/ Schedule
    \/ Fire
    \/ ParseDtdStep
    \/ ParseXmlStep
    \/ MapLinesStep
    \/ ValidateStep
    \/ FinishStep
    \/ Throw
    \/ CatchStep
    \/ Deliver

SpecRuns == Init /\ [][NextRuns]_vars

(***************************************************************************)
(* What the properties compare the program with: read off the structure    *)
(* the input texts were written from, never off the program's own tables.  *)
(***************************************************************************)
\* The run went through the try block to its last resolve.
NormalPath ==
    /\ pc = "done"
    /\ ~thrown
    /\ invoked = {"parseDtd", "DOMParser", "mapElementLines", "validateNode"}

\* The declarations of the DTD text that declare something.
DeclaredAt(d) == {i \in 1..Len(d.decls) : d.decls[i].toks # <<>>}

Declared(d, tag) == \E i \in DeclaredAt(d) : d.decls[i].name = tag

\* The textually last declaration of tag.
LastDecl(d, tag) ==
    CHOOSE i \in DeclaredAt(d) :
        /\ d.decls[i].name = tag
        /\ \A j \in DeclaredAt(d) : d.decls[j].name = tag => j <= i

RECURSIVE SumTo(_, _)
\* f[1] + ... + f[n]
SumTo(f, n) == IF n = 0 THEN 0 ELSE f[n] + SumTo(f, n - 1)

\* The line of the DTD text on which declaration i starts.
DeclLine(d, i) == 1 + SumTo([k \in 1..Len(d.decls) |-> d.decls[k].nl], i)

RECURSIVE LaidAt(_, _)
LaidAt(root, path) ==
    IF path = <<>> THEN root ELSE LaidAt(root.kids[Head(path)], Tail(path))

\* The line of the XML text on which the start tag of the node at path is:
\* one more than the line breaks laid out before it.
StartTagLine(x, path) ==
    LET order == PreOrder(DomOf(x.root), <<>>)
        at == CHOOSE k \in 1..Len(order) : order[k] = path
    IN  1 + SumTo([k \in 1..Len(order) |-> LaidAt(x.root, order[k]).nl], at)

\* The paths of all nodes of the document.
AllNodes == { PreOrder(xmlDoc.documentElement, <<>>)[k] :
                k \in 1..Len(PreOrder(xmlDoc.documentElement, <<>>)) }

TagAt(path) == NodeAt(xmlDoc.documentElement, path).tagName

\* The nodes all of whose proper ancestors are declared.
Reached == { p \in AllNodes :
               \A k \in 0..(Len(p) - 1) : Declared(dtd, TagAt(Slice(p, 1, k))) }

\* The diagnostics of the list errs that are about the node at path.
About(errs, path) == SelectSeq(errs, LAMBDA e : e.prefix # <<>> /\ e.node = path)

\* p comes before q in depth-first pre-order.
PathBefore(p, q) ==
    /\ p # q
    /\ \/ IsPrefix(p, q)
       \/ \E k \in 1..Len(p) :
            /\ k <= Len(q)
            /\ Slice(p, 1, k - 1) = Slice(q, 1, k - 1)
            /\ p[k] < q[k]

RECURSIVE CloseTok(_, _, _)
\* The index of the ")" that closes the group opened just before toks[i].
CloseTok(toks, i, depth) ==
    IF toks[i] = LP THEN CloseTok(toks, i + 1, depth + 1)
    ELSE IF toks[i] = RP
         THEN IF depth = 0 THEN i ELSE CloseTok(toks, i + 1, depth - 1)
         ELSE CloseTok(toks, i + 1, depth)

RECURSIVE TopChoice(_, _, _, _)
\* The index of the first "|" of toks[lo..hi] outside every group, 0 if none.
TopChoice(toks, lo, hi, depth) ==
    IF lo > hi THEN 0
    ELSE IF toks[lo] = LP THEN TopChoice(toks, lo + 1, hi, depth + 1)
    ELSE IF toks[lo] = RP THEN TopChoice(toks, lo + 1, hi, depth - 1)
    ELSE IF toks[lo] = Bar /\ depth = 0 THEN lo
    ELSE TopChoice(toks, lo + 1, hi, depth)

RECURSIVE LangChoice(_, _, _, _, _)
RECURSIVE LangSequence(_, _, _, _, _)
RECURSIVE LangOnce(_, _, _, _, _)
RECURSIVE LangStar(_, _, _, _, _)

\* The regular language of a content spec over whole names: the numbers of
\* names of kids that toks[lo..hi] can have consumed when it starts after
\* P of them.  "|" is choice, "," sequence, "*", "+", "?" repetition.
LangChoice(toks, kids, lo, hi, P) ==
    LET bar == TopChoice(toks, lo, hi, 0) IN
    IF bar = 0 THEN LangSequence(toks, kids, lo, hi, P)
    ELSE LangSequence(toks, kids, lo, bar - 1, P)
            \cup LangChoice(toks, kids, bar + 1, hi, P)

LangOnce(toks, kids, lo, last, P) ==
    IF toks[lo] = LP THEN LangChoice(toks, kids, lo + 1, last - 1, P)
    ELSE {p + 1 : p \in {q \in P : q < Len(kids) /\ kids[q + 1] = toks[lo]}}

LangStar(toks, kids, lo, last, P) ==
    LET N == P \cup LangOnce(toks, kids, lo, last, P) IN
    IF N = P THEN P ELSE LangStar(toks, kids, lo, last, N)

LangSequence(toks, kids, lo, hi, P) ==
    IF lo > hi THEN P
    ELSE IF toks[lo] = Comma THEN LangSequence(toks, kids, lo + 1, hi, P)
    ELSE LET last == IF toks[lo] = LP THEN CloseTok(toks, lo + 1, 0) ELSE lo
             quant == IF last < hi /\ toks[last + 1] \in {Star, Plus, Opt}
                      THEN toks[last + 1] ELSE <<>>
             R == CASE quant = Opt -> P \cup LangOnce(toks, kids, lo, last, P)
                    [] quant = Star -> LangStar(toks, kids, lo, last, P)
                    [] quant = Plus ->
                         LangStar(toks, kids, lo, last, LangOnce(toks, kids, lo, last, P))
                    [] OTHER -> LangOnce(toks, kids, lo, last, P)
         IN  LangSequence(toks, kids, IF quant = <<>> THEN last + 1 ELSE last + 2, hi, R)

\* The sequence kids of names is in the language of the content spec toks.
InLanguage(toks, kids) ==
    Len(kids) \in LangChoice(toks, kids, 1, Len(toks), {0})

RECURSIVE ParenDepths(_, _, _)
\* The parentheses of toks[i..] balance, depth of them being open.
ParenDepths(toks, i, depth) ==
    IF i > Len(toks) THEN depth = 0
    ELSE IF toks[i] = LP THEN ParenDepths(toks, i + 1, depth + 1)
    ELSE IF toks[i] = RP THEN depth > 0 /\ ParenDepths(toks, i + 1, depth - 1)
    ELSE ParenDepths(toks, i + 1, depth)

\* A spec of element content (not EMPTY, ANY or one that opens with #PCDATA).
ElementContent(toks) ==
    /\ toks # <<>>
    /\ toks[1] \notin {KwEmpty, KwAny}
    /\ ~(Len(toks) >= 2 /\ toks[1] = LP /\ toks[2] = KwPcdata)

\* An element-content spec no matcher can be made of: its parentheses do not
\* balance, or it opens with a repetition.
Malformed(toks) ==
    /\ ElementContent(toks)
    /\ ~ParenDepths(toks, 1, 0) \/ toks[1] \in {Star, Plus, Opt}

(***************************************************************************)
(* Properties                                                              *)
(***************************************************************************)
IsInternalError(r) ==
    /\ r.isValid = FALSE
    /\ Len(r.errors) = 1
    /\ r.errors[1].kind = "Internal Validator Error"
    /\ r.errors[1].prefix = <<>>

\* C1: the promise of a call is resolved exactly once, with a result, and is
\* never rejected; when a step of the run threw, the result is invalid and
\* its only diagnostic is the internal-error one.
C1_ResolvedOnceWithInternalErrorOnThrow ==
    /\ promise # "rejected"
    /\ resolveCalls <= 1
    /\ pc \notin {"idle", "done"} => promise = "pending" /\ resolveCalls = 0
    /\ pc = "done" => promise = "fulfilled" /\ resolveCalls = 1
    /\ pc = "done" /\ thrown => IsInternalError(result)

\* A run in which the structural validator threw has been resolved.
C1_Witness ==
    /\ pc = "done"
    /\ thrown
    /\ "validateNode" \in invoked
    /\ IsInternalError(result)

\* C2: in every result, isValid is true exactly when the list of errors is
\* empty, and the count in the summary of a failed run that reached its end
\* is the length of the list.
C2_ValidIffNoErrors ==
    promise = "fulfilled" =>
        /\ result.isValid <=> result.errors = <<>>
        /\ NormalPath /\ ~result.isValid =>
              /\ result.generalComment.text = "Validation Failed."
              /\ result.generalComment.count = Len(result.errors)
        /\ NormalPath /\ result.isValid =>
              result.generalComment.text = "Validation Successful."

\* A run that reached its end with two diagnostics or more.
C2_Witness == NormalPath /\ Len(result.errors) >= 2 /\ ~result.isValid

ZeroDeclarations(d) == DeclaredAt(d) = {}

\* C3: when the DTD text declares no element, the run calls neither the XML
\* parser nor the line correlator nor the structural validator, and its
\* result is invalid with the one diagnostic of that case, whatever the XML
\* is.
C3_NoDefinitionsStopsTheRun ==
    ZeroDeclarations(dtd) =>
        /\ invoked \subseteq {"parseDtd"}
        /\ pc = "done" /\ ~thrown =>
              /\ result.isValid = FALSE
              /\ Len(result.errors) = 1
              /\ result.errors[1].kind = "No valid ELEMENT definitions found in DTD."

\* A run over a DTD without declarations and a well-formed XML text is done.
C3_Witness ==
    /\ pc = "done" /\ ~thrown
    /\ promise = "fulfilled"
    /\ ZeroDeclarations(dtd)
    /\ xml.kind = "tree" /\ Len(xml.root.kids) > 0

\* C4: when the parser reports a syntax fault and the DTD declares an
\* element, neither mapElementLines nor validateNode is called and the
\* result is invalid with one diagnostic, which carries the fault's text; a
\* syntax diagnostic is never in a result with another diagnostic.
C4_SyntaxFaultStopsTheRun ==
    /\ xml.kind = "fault" /\ ~ZeroDeclarations(dtd) =>
          /\ invoked \cap {"mapElementLines", "validateNode"} = {}
          /\ pc = "done" /\ ~thrown =>
                /\ result.isValid = FALSE
                /\ Len(result.errors) = 1
                /\ result.errors[1].kind = "XML Syntax Error"
                /\ result.errors[1].info = <<xml.fault>>
    /\ \A i \in 1..Len(result.errors) :
          result.errors[i].kind = "XML Syntax Error" => Len(result.errors) = 1

\* A run over a text that is not well-formed is done.
C4_Witness ==
    /\ pc = "done" /\ ~thrown
    /\ xml.kind = "fault" /\ ~ZeroDeclarations(dtd)
    /\ result.errors[1].info = <<FaultText>>

\* The reached nodes whose definition is of type CHILDREN with a matcher.
MatchedNodes ==
    { p \in Reached : /\ Declared(dtd, TagAt(p))
                      /\ definitions[TagAt(p)].type = "CHILDREN"
                      /\ definitions[TagAt(p)].hasRegex }

HasStructureError(p) ==
    \E i \in 1..Len(result.errors) :
        result.errors[i].kind = "structure" /\ result.errors[i].node = p

\* C5: for a node whose definition is of type CHILDREN with a matcher, the
\* result holds the invalid-content-structure diagnostic exactly when the
\* sequence of the names of its child elements, as whole names in document
\* order, is not in the regular language of the content spec.
C5_StructureErrorIffNotInLanguage ==
    NormalPath =>
        \A p \in MatchedNodes :
            HasStructureError(p) <=>
                ~InLanguage(dtd.decls[LastDecl(dtd, TagAt(p))].toks,
                            ChildTags(NodeAt(xmlDoc.documentElement, p)))

\* C6: a reached node whose tag the DTD does not declare has exactly one
\* diagnostic, the not-defined one, and no node below it has any.
C6_UndefinedElementEndsTheDescent ==
    NormalPath =>
        \A p \in Reached :
            ~Declared(dtd, TagAt(p)) =>
                /\ Len(About(result.errors, p)) = 1
                /\ About(result.errors, p)[1].kind = "undefined"
                /\ About(result.errors, p)[1].tagName = TagAt(p)
                /\ \A i \in 1..Len(result.errors) :
                      ~(/\ result.errors[i].node # p
                        /\ IsPrefix(p, result.errors[i].node))

\* A reached node that is not declared and has a child that is not declared
\* either.
C6_Witness ==
    /\ NormalPath
    /\ \E p \in Reached :
          /\ ~Declared(dtd, TagAt(p))
          /\ \E q \in AllNodes :
                q # p /\ IsPrefix(p, q) /\ ~Declared(dtd, TagAt(q))

\* The names a MIXED spec lists after #PCDATA.
MixedNames(toks) ==
    {toks[k] : k \in {j \in 1..Len(toks) :
                        toks[j] \notin {LP, RP, Bar, Star, KwPcdata}}}

SatisfiesRule(p) ==
    LET node == NodeAt(xmlDoc.documentElement, p)
        def == definitions[node.tagName]
        blank == \A k \in 1..Len(node.text) : node.text[k] \in WhiteSpace
    IN  CASE def.type = "EMPTY" -> node.children = <<>> /\ blank
          [] def.type = "PCDATA" -> node.children = <<>>
          [] def.type = "MIXED" ->
               \A k \in 1..Len(node.children) :
                   SetHas(def.allowedElements, node.children[k].tagName)
          [] def.type = "CHILDREN" ->
               blank /\ (def.hasRegex => RegExpTest(def.regex, ChildSignature(node)))
          [] OTHER -> TRUE

\* The diagnostics the node at p is due by itself.
DueAt(p) ==
    LET node == NodeAt(xmlDoc.documentElement, p) IN
    IF Declared(dtd, node.tagName)
    THEN OwnErrors(node, p, definitions[node.tagName],
                   Prefix(XmlLineOf(lineMap, p), definitions[node.tagName].line))
    ELSE <<Diagnostic(Prefix(XmlLineOf(lineMap, p), 0), "undefined",
                      node.tagName, <<>>, p)>>

\* C8: the result holds the diagnostics of every reached node and of no
\* other, so the validation does not stop at a violation; and a result is
\* valid only if every element of the tree is declared and keeps the content
\* rule of its definition.
C8_ViolationsFullyEnumerated ==
    NormalPath =>
        /\ \A p \in Reached : About(result.errors, p) = DueAt(p)
        /\ \A i \in 1..Len(result.errors) : result.errors[i].node \in Reached
        /\ \A p \in Reached :
              (Declared(dtd, TagAt(p)) /\ ~SatisfiesRule(p)) =>
                  About(result.errors, p) # <<>>
        /\ result.isValid =>
              \A p \in AllNodes : Declared(dtd, TagAt(p)) /\ SatisfiesRule(p)

\* Two nodes, neither above the other, both have diagnostics.
C8_Witness ==
    /\ NormalPath
    /\ \E i, j \in 1..Len(result.errors) :
          /\ i < j
          /\ ~IsPrefix(result.errors[i].node, result.errors[j].node)
          /\ ~IsPrefix(result.errors[j].node, result.errors[i].node)

\* parseDtd has returned in this run.
ParseDtdReturned ==
    \/ pc \in {"parseXml", "mapLines", "validate", "finish"}
    \/ pc \in {"catch", "done"} /\ "DOMParser" \in invoked
    \/ pc = "done" /\ ~thrown

MalformedAt(d) == {i \in DeclaredAt(d) : Malformed(d.decls[i].toks)}

\* The DTD input without its declaration i.
Without(d, i) ==
    MakeDtd([k \in 1..(Len(d.decls) - 1) |->
                IF k < i THEN d.decls[k] ELSE d.decls[k + 1]], d.eol)

\* A definition but for its line.
Core(def) == [def EXCEPT !.line = 0]

\* C9: a declaration whose spec cannot be made a matcher leaves its element
\* in the table with type ANY (when no later declaration of the same name
\* replaces it), and every other element has the definition, line apart, it
\* has when the DTD text lacks the malformed declaration; the violations of
\* those elements are reported.
C9_MalformedDeclarationIsIsolated ==
    ParseDtdReturned =>
        \A i \in MalformedAt(dtd) :
            LET name == dtd.decls[i].name
                rest == ParseDtd(Without(dtd, i).text)
            IN  /\ name \in DOMAIN definitions
                /\ LastDecl(dtd, name) = i =>
                      /\ definitions[name].type = "ANY"
                      /\ ~definitions[name].hasRegex
                /\ \A n \in (DOMAIN definitions) \ {name} :
                      /\ n \in DOMAIN rest
                      /\ Core(definitions[n]) = Core(rest[n])
                /\ NormalPath =>
                      \A p \in Reached :
                         (/\ Declared(dtd, TagAt(p))
                          /\ TagAt(p) # name
                          /\ ~SatisfiesRule(p)) => About(result.errors, p) # <<>>

\* A DTD with a malformed declaration, and a structure diagnostic for an
\* element of another declaration.
C9_Witness ==
    /\ NormalPath
    /\ \E i \in MalformedAt(dtd) :
          /\ definitions[dtd.decls[i].name].type = "ANY"
          /\ \E k \in 1..Len(result.errors) :
                /\ result.errors[k].kind = "structure"
                /\ result.errors[k].tagName # dtd.decls[i].name

\* C10: for a well-formed XML text every diagnostic about a node carries the
\* line of the node's own start tag as its XML line and, when the node's tag
\* is declared, the line on which the "<!ELEMENT" of its definition starts as
\* its DTD line.
C10_DiagnosticsCarryTheTrueLines ==
    (NormalPath /\ xml.kind = "tree") =>
        \A i \in 1..Len(result.errors) :
            LET e == result.errors[i] IN
            e.prefix # <<>> =>
                /\ e.prefix[1].marker = "XML"
                /\ e.prefix[1].known
                /\ e.prefix[1].line = StartTagLine(xml, e.node)
                /\ Declared(dtd, e.tagName) =>
                      /\ Len(e.prefix) = 2
                      /\ e.prefix[2].marker = "DTD"
                      /\ e.prefix[2].line = DeclLine(dtd, LastDecl(dtd, e.tagName))

\* The markers of the diagnostics the program computes for the DTD and XML
\* inputs d and x with every line break written as eol.
LinesWith(d, x, eol) ==
    LET defs == ParseDtd(DtdText(d.decls, eol))
        doc == DomOf(x.root)
        lm == MapElementLines(RenderNode(x.root, eol), doc)
        errs == ValidateNode(doc, <<>>, defs, lm)
    IN  [i \in 1..Len(errs) |-> errs[i].prefix]

\* C11: the diagnostics of a run carry the same XML and DTD lines as those
\* of the same DTD and XML texts written with LF line endings and as those
\* of the same texts written with CRLF line endings.
C11_LineEndingNeutrality ==
    (NormalPath /\ xml.kind = "tree") =>
        LET got == [i \in 1..Len(result.errors) |-> result.errors[i].prefix] IN
        /\ got = LinesWith(dtd, xml, EolLF)
        /\ got = LinesWith(dtd, xml, EolCRLF)

\* The result of the run over the inputs d and x when nothing else runs and
\* no step throws, composed of the four components.
RunAlone(d, x) ==
    LET defs == ParseDtd(d.text)
        doc == ParseFromString(x)
        faults == GetElementsByTagName(doc, ParserErrorTag)
        errs == IF doc.hasRoot
                THEN ValidateNode(doc.documentElement, <<>>, defs,
                                  MapElementLines(x.text, doc.documentElement))
                ELSE <<Message("XML document has no root element.", <<>>)>>
    IN  IF DOMAIN defs = {}
        THEN ValidationResult(FALSE,
                 <<Message("No valid ELEMENT definitions found in DTD.", <<>>)>>,
                 "DTD parsing failed or input was empty.", 0)
        ELSE IF faults # <<>>
        THEN ValidationResult(FALSE,
                 <<Message("XML Syntax Error",
                           <<TextContent(NodeAt(doc.documentElement, faults[1]))>>)>>,
                 "The XML document is not well-formed.", 0)
        ELSE ValidationResult(errs = <<>>, errs,
                 IF errs = <<>> THEN "Validation Successful." ELSE "Validation Failed.",
                 Len(errs))

\* C12: two runs over the same DTD text and the same XML text, in whichever
\* order and whatever runs between them, give the same isValid, the same
\* diagnostics in the same order and the same summary (a run in which a step
\* threw is compared with the runs in which a step threw).
C12_SameTextsSameResult ==
    \A i, j \in 1..Len(settled) :
        (/\ settled[i].dtd.text = settled[j].dtd.text
         /\ settled[i].xml.text = settled[j].xml.text
         /\ settled[i].thrown = settled[j].thrown)
            => settled[i].result = settled[j].result

\* The first and the third run are over the same texts, the second over
\* another DTD text, and the results hold diagnostics of nodes.
C12_Witness ==
    /\ Len(settled) = 3
    /\ settled[1].dtd.text = settled[3].dtd.text
    /\ settled[1].xml.text = settled[3].xml.text
    /\ settled[2].dtd.text # settled[1].dtd.text
    /\ ~settled[1].thrown /\ ~settled[3].thrown
    /\ Len(settled[3].result.errors) >= 2

\* C17: whatever runs are in flight and in whatever order the calls and the
\* callbacks come, the result a caller receives is the result of its run
\* alone (the internal-error result, when a step of that run threw).
C17_RunsAreIndependent ==
    \A k \in 1..Len(settled) :
        settled[k].result =
            IF settled[k].thrown
            THEN ValidationResult(FALSE, <<Message("Internal Validator Error", <<>>)>>,
                                  "An unexpected error occurred during validation.", 0)
            ELSE RunAlone(settled[k].dtd, settled[k].xml)

\* A callback has resolved its promise while another call waits for its
\* timer, after a run over another DTD text was delivered with diagnostics.
C17_Witness ==
    /\ pc = "done" /\ ~thrown
    /\ Len(timers) = 1
    /\ Len(settled) = 1
    /\ settled[1].dtd.text # dtd.text
    /\ settled[1].result.errors # <<>>
    /\ result = RunAlone(dtd, xml)
    /\ Len(result.errors) >= 2

\* The state of the run, as the states of ValidationStatus.
Status ==
    CASE promise = "none" -> "IDLE"
      [] promise = "pending" -> "VALIDATING"
      [] promise = "fulfilled" /\ result.isValid -> "SUCCESS"
      [] OTHER -> "ERROR"

\* The steps of the callback in their order; an early return or a throw
\* leaves the order.
StepsInOrder ==
    /\ pc = "idle" => pc' = "parseDtd"
    /\ pc = "parseDtd" => pc' \in {"parseXml", "done", "catch"}
    /\ pc = "parseXml" => pc' \in {"mapLines", "finish", "done", "catch"}
    /\ pc = "mapLines" => pc' \in {"validate", "catch"}
    /\ pc = "validate" => pc' \in {"finish", "catch"}
    /\ pc \in {"finish", "catch"} => pc' = "done"
    /\ "DOMParser" \in invoked' => "parseDtd" \in invoked'
    /\ "mapElementLines" \in invoked' => "DOMParser" \in invoked'
    /\ "validateNode" \in invoked' => "mapElementLines" \in invoked'

\* IDLE -> VALIDATING -> SUCCESS or ERROR, and nothing after.
StatusMoves ==
    /\ Status = "IDLE" => Status' = "VALIDATING"
    /\ Status = "VALIDATING" => Status' \in {"VALIDATING", "SUCCESS", "ERROR"}
    /\ Status \notin {"SUCCESS", "ERROR"}

\* C15: a run goes from IDLE to VALIDATING to SUCCESS or ERROR and nowhere
\* else, its steps in the order compile DTD, parse XML, correlate lines,
\* validate; every run that has begun reaches SUCCESS or ERROR; and from
\* there the run takes no step, so the result it delivered stays as it is.
C15_RunReachesOneTerminalState ==
    /\ [][StepsInOrder /\ StatusMoves]_vars
    /\ (Status = "VALIDATING") ~> (Status \in {"SUCCESS", "ERROR"})
    /\ [](Status \in {"SUCCESS", "ERROR"} => [](Status \in {"SUCCESS", "ERROR"}))

\* A run that went through the four steps has ended in SUCCESS.
C15_Witness ==
    /\ NormalPath
    /\ Status = "SUCCESS"
    /\ Len(PreOrder(xmlDoc.documentElement, <<>>)) = 3

\* The tokens of a spec that are neither comments nor line breaks.
SpecTokens(toks) == SelectSeq(toks, LAMBDA t : t \notin {SpecComment, Break})

\* The type a declaration with the spec toks declares, read off its tokens.
DeclaredType(toks) ==
    LET core == SpecTokens(toks) IN
    CASE core = SpecEmpty -> "EMPTY"
      [] core = SpecAny -> "ANY"
      [] core = SpecPcdata -> "PCDATA"
      [] Len(core) >= 2 /\ core[1] = LP /\ core[2] = KwPcdata -> "MIXED"
      [] OTHER -> "CHILDREN"

\* The reached nodes whose tag the DTD declares, last, with a spec of type t.
NodesOfType(t) ==
    { p \in Reached : /\ Declared(dtd, TagAt(p))
                      /\ DeclaredType(dtd.decls[LastDecl(dtd, TagAt(p))].toks) = t }

\* C13: a node declared EMPTY has exactly one diagnostic, the EMPTY one, when
\* it has a child element or direct text that is not all white space, and no
\* diagnostic of its own otherwise.
C13_EmptyViolation ==
    NormalPath =>
        \A p \in NodesOfType("EMPTY") :
            LET node == NodeAt(xmlDoc.documentElement, p)
                own == About(result.errors, p)
                content == \/ node.children # <<>>
                           \/ \E k \in 1..Len(node.text) : node.text[k] \notin WhiteSpace
            IN  IF content
                THEN Len(own) = 1 /\ own[1].kind = "empty" /\ own[1].tagName = node.tagName
                ELSE own = <<>>

\* A node declared EMPTY holds text and no element: it has the one diagnostic.
C13_Witness ==
    /\ NormalPath
    /\ \E p \in NodesOfType("EMPTY") :
          /\ NodeAt(xmlDoc.documentElement, p).children = <<>>
          /\ NodeAt(xmlDoc.documentElement, p).text = TextHi
          /\ Len(About(result.errors, p)) = 1
          /\ About(result.errors, p)[1].kind = "empty"

\* C14: a node declared MIXED has one diagnostic for each child element whose
\* tag the spec does not list, in the order of those children, and no other
\* diagnostic of its own, whatever its text and however many listed children
\* it has in whatever order.
C14_MixedOnePerOffendingChild ==
    NormalPath =>
        \A p \in NodesOfType("MIXED") :
            LET node == NodeAt(xmlDoc.documentElement, p)
                own == About(result.errors, p)
                listed == MixedNames(dtd.decls[LastDecl(dtd, TagAt(p))].toks)
                offending == SelectSeq(ChildTags(node), LAMBDA c : c \notin listed)
            IN  /\ Len(own) = Len(offending)
                /\ \A k \in 1..Len(own) :
                      /\ own[k].kind = "mixed"
                      /\ own[k].tagName = node.tagName
                      /\ own[k].info[1] = offending[k]

\* (#PCDATA|B)* over text, B and C: one diagnostic, for C.
C14_Witness ==
    /\ NormalPath
    /\ \E p \in NodesOfType("MIXED") :
          LET node == NodeAt(xmlDoc.documentElement, p) IN
          /\ node.text = TextHi
          /\ ChildTags(node) = <<B, C>>
          /\ MixedNames(dtd.decls[LastDecl(dtd, TagAt(p))].toks) = {B}
          /\ Len(About(result.errors, p)) = 1
          /\ About(result.errors, p)[1].info[1] = C

\* The kinds of the diagnostics validateNode makes.
StructuralKinds == {"undefined", "empty", "pcdata", "mixed", "text", "structure"}

\* C16: a diagnostic of validateNode begins with the XML marker, which holds
\* the line the map has for the node or is the unknown marker when the map
\* has none, and the DTD marker follows exactly when the node's tag has a
\* definition; the diagnostics of the other kinds (no definitions, syntax
\* fault, no root, internal fault) have no marker.
C16_MarkersLeadEveryDiagnostic ==
    promise = "fulfilled" =>
        \A i \in 1..Len(result.errors) :
            LET e == result.errors[i] IN
            IF e.kind \in StructuralKinds
            THEN /\ Len(e.prefix) \in {1, 2}
                 /\ e.prefix[1].marker = "XML"
                 /\ e.prefix[1].known <=> e.node \in DOMAIN lineMap
                 /\ e.prefix[1].known => e.prefix[1].line = lineMap[e.node]
                 /\ Len(e.prefix) = 2 <=> e.tagName \in DOMAIN definitions
                 /\ Len(e.prefix) = 2 =>
                       /\ e.prefix[2].marker = "DTD"
                       /\ e.prefix[2].line = definitions[e.tagName].line
            ELSE e.prefix = <<>>

\* A result with a diagnostic of two markers, and one of a single marker
\* that is the unknown one.
C16_Witness ==
    /\ NormalPath
    /\ \E i, j \in 1..Len(result.errors) :
          /\ Len(result.errors[i].prefix) = 2
          /\ Len(result.errors[j].prefix) = 1
          /\ result.errors[j].kind = "undefined"
          /\ ~result.errors[j].prefix[1].known

\* The longest sequence of child names the matchers are tried on.
MaxKids == 2

\* The sequences of at most MaxKids child names.
ChildSequences ==
    UNION { [1..n -> {B, C, BC}] : n \in 0..MaxKids }

\* C18: a matcher that parseDtd compiled accepts a sequence of child names
\* only if the whole sequence is in the language of the content spec, also
\* for a spec whose top level is a choice without parentheses.
C18_MatcherIsAnchored ==
    pc = "parseXml" =>
        \A name \in DOMAIN definitions :
            definitions[name].hasRegex =>
                \A kids \in ChildSequences :
                    RegExpTest(definitions[name].regex,
                               Cat([i \in 1..Len(kids) |-> <<SOH>> \o kids[i]]))
                        => InLanguage(dtd.decls[LastDecl(dtd, name)].toks, kids)

\* The names of the declarations of the DTD text.
DeclaredNames(d) == {d.decls[i].name : i \in DeclaredAt(d)}

\* C19: the type of a definition follows from the spec of its declaration
\* without white space, line breaks and comments, in this order: EMPTY, ANY,
\* (#PCDATA), a spec that opens with (#PCDATA, which is MIXED and allows
\* exactly the names it lists, and anything else, which is CHILDREN (ANY when
\* no matcher can be made of it).
C19_ClassifiedInPriorityOrder ==
    pc = "parseXml" =>
        \A name \in DeclaredNames(dtd) :
            LET toks == dtd.decls[LastDecl(dtd, name)].toks
                def == definitions[name]
            IN  /\ def.type = IF DeclaredType(toks) = "CHILDREN" /\ Malformed(toks)
                              THEN "ANY" ELSE DeclaredType(toks)
                /\ DeclaredType(toks) = "MIXED" =>
                      {def.allowedElements[k] : k \in 1..Len(def.allowedElements)}
                          = MixedNames(SpecTokens(toks))
                /\ DeclaredType(toks) # "MIXED" => def.allowedElements = <<>>

\* C20: the table has one definition for each declared name and for no
\* other; it is the one of the textually last declaration of the name, with
\* that declaration's type, matcher, rawSpec and line, and the diagnostics
\* about the element carry that line.
C20_LastDeclarationWins ==
    /\ ParseDtdReturned =>
          /\ DOMAIN definitions = DeclaredNames(dtd)
          /\ \A name \in DeclaredNames(dtd) :
                LET last == LastDecl(dtd, name)
                    alone == ParseDtd(DeclText(dtd.decls[last]))
                IN  /\ Core(definitions[name]) = Core(alone[name])
                    /\ definitions[name].line = DeclLine(dtd, last)
    /\ NormalPath =>
          \A i \in 1..Len(result.errors) :
              LET e == result.errors[i] IN
              Len(e.prefix) = 2 =>
                  e.prefix[2].line = DeclLine(dtd, LastDecl(dtd, e.tagName))

\* A name is declared twice, with different types, and a diagnostic about
\* its element carries the line of the second declaration.
C20_Witness ==
    /\ NormalPath
    /\ \E i, j \in DeclaredAt(dtd) :
          /\ i < j
          /\ dtd.decls[i].name = dtd.decls[j].name
          /\ DeclaredType(dtd.decls[i].toks) # DeclaredType(dtd.decls[j].toks)
          /\ \E k \in 1..Len(result.errors) :
                /\ result.errors[k].tagName = dtd.decls[j].name
                /\ Len(result.errors[k].prefix) = 2
                /\ result.errors[k].prefix[2].line = DeclLine(dtd, j)
                /\ DeclLine(dtd, j) # DeclLine(dtd, i)

\* The state mapElementLines has just returned in.
MapLinesReturned == pc = "validate"

\* C21: the calls of traverse are made in pre-order, each starts with the
\* cursor the previous one left and never leaves a smaller one; a node is
\* mapped to the first occurrence of its tag at or after the cursor, with
\* that occurrence's line, and the cursor moves just past it; a node with no
\* such occurrence stays unmapped and leaves the cursor; no occurrence is
\* given to two nodes and the lines of the mapped nodes never decrease in
\* pre-order.
C21_CursorOnlyMovesForward ==
    MapLinesReturned =>
        LET locs == TagLocations(xml.text)
            run == TraverseRoot(xml.text, xmlDoc.documentElement)
            v == run.visits
            nodes == PreOrder(xmlDoc.documentElement, <<>>)
        IN  /\ lineMap = run.lineMap
            /\ Len(v) = Len(nodes)
            /\ \A k \in 1..Len(v) :
                  LET ahead == {j \in v[k].before..(Len(locs) - 1) :
                                   locs[j + 1].tagName = TagAt(nodes[k])}
                  IN  /\ v[k].path = nodes[k]
                      /\ v[k].before = IF k = 1 THEN 0 ELSE v[k - 1].after
                      /\ v[k].after >= v[k].before
                      /\ IF ahead # {}
                         THEN /\ v[k].found \in ahead
                              /\ \A j \in ahead : v[k].found <= j
                              /\ v[k].after = v[k].found + 1
                              /\ nodes[k] \in DOMAIN lineMap
                              /\ lineMap[nodes[k]] = locs[v[k].found + 1].line
                         ELSE /\ v[k].found = -1
                              /\ v[k].after = v[k].before
                              /\ nodes[k] \notin DOMAIN lineMap
            /\ \A k, m \in 1..Len(v) :
                  (k < m /\ v[k].found >= 0 /\ v[m].found >= 0) =>
                      /\ v[k].found < v[m].found
                      /\ lineMap[nodes[k]] <= lineMap[nodes[m]]

\* A node stays unmapped, and a later node is mapped to an occurrence beyond
\* the cursor.
C21_Witness ==
    /\ MapLinesReturned
    /\ xmlDoc.hasRoot
    /\ LET v == TraverseRoot(xml.text, xmlDoc.documentElement).visits
       IN  \E k, m \in 1..Len(v) :
              /\ k < m
              /\ v[k].found = -1
              /\ v[m].found > v[m].before

RECURSIVE InBlocks(_, _)
\* The positions of the text t, from t[i] on, that lie in a comment or in a
\* literal data (CDATA) block of the XML text: the text is read from left to
\* right, a block runs from its opening to the first closing after it, and
\* what stands inside a block or a processing instruction opens nothing.
InBlocks(t, i) ==
    IF i > Len(t) THEN {}
    ELSE LET open == IF StartsWithAt(t, i, CommentOpen) THEN CommentOpen
                     ELSE IF StartsWithAt(t, i, CdataOpen) THEN CdataOpen
                     ELSE IF StartsWithAt(t, i, <<"<", "?">>) THEN <<"<", "?">>
                     ELSE <<>>
             close == IF open = CommentOpen THEN CommentClose
                      ELSE IF open = CdataOpen THEN CdataClose
                      ELSE <<"?", ">">>
             e == IF open = <<>> THEN 0 ELSE FindFrom(t, i + Len(open), close)
         IN  IF e = 0 THEN InBlocks(t, i + 1)
             ELSE (IF open = <<"<", "?">> THEN {} ELSE i..(e + Len(close) - 1))
                     \cup InBlocks(t, e + Len(close))

\* C22: the masked text is as long as the XML text, holds a space at every
\* position of a comment or CDATA block and the character of the XML text
\* at every other position, and no tag occurrence starts inside a block.
C22_MaskingKeepsEverythingElse ==
    MapLinesReturned =>
        LET t == xml.text
            m == MaskXml(t)
            blocks == InBlocks(t, 1)
            locs == TagLocations(t)
        IN  /\ Len(m) = Len(t)
            /\ \A i \in 1..Len(t) :
                  m[i] = IF i \in blocks THEN SP ELSE t[i]
            /\ \A k \in 1..Len(locs) : locs[k].index + 1 \notin blocks

DoctypeOpen == <<"<", "!", "D", "O", "C", "T", "Y", "P", "E">>

\* The index of the character that closes the markup (a comment, a CDATA
\* block, a processing instruction or a document type declaration) that
\* opens at t[i], 0 when none opens there.
MarkupEnd(t, i) ==
    LET upTo(open, close) ==
            IF StartsWithAt(t, i, open) /\ FindFrom(t, i + Len(open), close) > 0
            THEN FindFrom(t, i + Len(open), close) + Len(close) - 1 ELSE 0
        gt == FindFrom(t, i, <<">">>)
        sq == FindFrom(t, i, <<"[">>)
    IN  IF upTo(CommentOpen, CommentClose) > 0 THEN upTo(CommentOpen, CommentClose)
        ELSE IF upTo(CdataOpen, CdataClose) > 0 THEN upTo(CdataOpen, CdataClose)
        ELSE IF upTo(<<"<", "?">>, <<"?", ">">>) > 0
             THEN upTo(<<"<", "?">>, <<"?", ">">>)
        ELSE IF StartsWithAt(t, i, DoctypeOpen)
             THEN IF sq > 0 /\ sq < gt THEN upTo(DoctypeOpen, <<"]", ">">>) ELSE gt
        ELSE 0

RECURSIVE StartTags(_, _)
\* The element start tags (empty-element tags included) of the XML text t
\* from t[i] on, from left to right, each with its name and offset.
StartTags(t, i) ==
    IF i > Len(t) THEN <<>>
    ELSE IF MarkupEnd(t, i) > 0 THEN StartTags(t, MarkupEnd(t, i) + 1)
    ELSE LET n == IF t[i] = "<" THEN RunLen(t, i + 1, TagNameChars) ELSE 0
             close == IF n >= 1 THEN FindFrom(t, i + 1 + n, <<">">>) ELSE 0
         IN  IF close > 0
             THEN <<[tagName |-> Slice(t, i + 1, i + n), index |-> i - 1]>>
                     \o StartTags(t, close + 1)
             ELSE StartTags(t, i + 1)

\* C23: tagLocations holds, from left to right, one entry for each element
\* start tag of the XML text, with its name and offset, and no other entry:
\* nothing for a closing tag, nothing for a text that looks like a tag in a
\* processing instruction or in the internal subset of a DOCTYPE.
C23_OneEntryPerStartTag ==
    MapLinesReturned =>
        LET locs == TagLocations(xml.text) IN
        [k \in 1..Len(locs) |-> [tagName |-> locs[k].tagName, index |-> locs[k].index]]
            = StartTags(xml.text, 1)

\* The positions of the line breaks of a text whose line ending is LF.
BreaksOf(t) == {i \in 1..Len(t) : t[i] = LF}

\* C24: for an XML text with LF line endings lineOffsets has one entry for
\* each line, starts with 0, ascends strictly, and each later entry is the
\* offset just after the line break that ends the line before; the line
\* found for an offset is the last line that starts at or before it.
C24_LineOffsetsAndLookup ==
    (MapLinesReturned /\ xml.eol = EolLF) =>
        LET t == xml.text
            offs == LineOffsets(t)
        IN  /\ Len(offs) = Cardinality(BreaksOf(t)) + 1
            /\ offs[1] = 0
            /\ \A k \in 1..(Len(offs) - 1) : offs[k] < offs[k + 1]
            /\ \A k \in 2..Len(offs) :
                  /\ offs[k] \in BreaksOf(t)
                  /\ Cardinality({b \in BreaksOf(t) : b <= offs[k]}) = k - 1
            /\ \A index \in 0..Len(t) :
                  LET line == LineOfIndex(offs, index) IN
                  /\ line \in 1..Len(offs)
                  /\ offs[line] <= index
                  /\ \A k \in 1..Len(offs) : offs[k] <= index => k <= line

\* An LF text of four lines or more with an empty line in it, and a tag
\* occurrence on its last line.
C24_Witness ==
    /\ MapLinesReturned
    /\ xml.eol = EolLF
    /\ Len(LineOffsets(xml.text)) >= 4
    /\ \E b \in BreaksOf(xml.text) : b + 1 \in BreaksOf(xml.text)
    /\ \E k \in 1..Len(TagLocations(xml.text)) :
          TagLocations(xml.text)[k].line = Len(LineOffsets(xml.text))

(***************************************************************************)
(* The messages as texts.  A message is a sequence whose members are       *)
(* single characters, for the markers and for what comes from the inputs,  *)
(* and the fixed phrases of the template literals, each one member (no     *)
(* phrase holds a bracketed marker, white space at an end that trim would  *)
(* reach, or a digit next to a marker).                                    *)
(***************************************************************************)
RECURSIVE DecimalOf(_)
\* `${n}` for a line number n
DecimalOf(n) ==
    LET digit == <<"0", "1", "2", "3", "4", "5", "6", "7", "8", "9">>[(n % 10) + 1]
    IN  IF n < 10 THEN <<digit>> ELSE Append(DecimalOf(n \div 10), digit)

\* `[XML: ${xmlLine}]` and `[DTD: ${dtdLine}]`
MarkerText(m) ==
    <<"[">> \o (IF m.marker = "XML" THEN <<"X", "M", "L">> ELSE <<"D", "T", "D">>)
        \o <<":", SP>> \o (IF m.known THEN DecimalOf(m.line) ELSE <<"?">>) \o <<"]">>

\* prefix as a text
PrefixText(prefix) ==
    MarkerText(prefix[1])
        \o (IF Len(prefix) = 2 THEN <<SP>> \o MarkerText(prefix[2]) ELSE <<>>)

\* The message after `${prefix}`, or the whole message when it has no prefix.
BodyText(e) ==
    LET element == <<SP, "Element <">> \o e.tagName IN
    CASE e.kind = "undefined" ->
           element \o <<"> is used in XML but not defined in DTD.">>
      [] e.kind = "empty" ->
           element \o <<"> is declared EMPTY but contains content.">>
      [] e.kind = "pcdata" ->
           element \o <<"> is declared (#PCDATA) but contains child elements.">>
      [] e.kind = "mixed" ->
           element \o <<"> contains unexpected child <">> \o e.info[1]
               \o <<">. Allowed mixed content: ">>
               \o Join(Tail(e.info), <<",", SP>>) \o <<".">>
      [] e.kind = "text" ->
           element \o <<"> has element-only content definition but contains text data: ",
                        "\"">> \o e.info[1] \o <<".", ".", ".", "\"">>
      [] e.kind = "structure" ->
           element \o <<"> has invalid content structure.", LF, "Found children: ", "[">>
               \o (IF Len(e.info) > 1 THEN Join(Tail(e.info), <<",", SP>>)
                   ELSE <<"None">>)
               \o <<"]", LF, "Expected DTD sequence: ">> \o e.info[1]
      [] e.kind = "XML Syntax Error" -> <<e.kind, ":", SP>> \o e.info[1]
      [] e.kind = "Internal Validator Error" -> <<e.kind, ":", SP, "err.message">>
      [] OTHER -> <<e.kind>>

\* The string the validator puts in errors for the diagnostic e.
MessageText(e) ==
    (IF e.prefix = <<>> THEN <<>> ELSE PrefixText(e.prefix)) \o BodyText(e)

(***************************************************************************)
(* ResultPanel: the markers it extracts from a message and the text it     *)
(* shows.                                                                  *)
(***************************************************************************)
RECURSIVE ParseInt(_)
\* parseInt(digits, 10)
ParseInt(digits) ==
    IF digits = <<>> THEN 0
    ELSE LET last == digits[Len(digits)]
             value == CHOOSE v \in 0..9 : DecimalOf(v) = <<last>>
         IN  10 * ParseInt(Slice(digits, 1, Len(digits) - 1)) + value

\* tagRegex = /\[(XML|DTD):\s*(\d+)\]/ tried at err[i]: the index of the last
\* character of the match, 0 when there is no match at i.
TagRegexMatchAt(err, i) ==
    LET word == IF StartsWithAt(err, i, <<"[", "X", "M", "L", ":">>)
                   \/ StartsWithAt(err, i, <<"[", "D", "T", "D", ":">>)
                THEN 5 ELSE 0
        spaces == RunLen(err, i + word, WhiteSpace)
        digits == RunLen(err, i + word + spaces, Digits)
        close == i + word + spaces + digits
    IN  IF word > 0 /\ digits >= 1 /\ close <= Len(err) /\ err[close] = "]"
        THEN close ELSE 0

RECURSIVE ExtractTags(_, _)
\* while ((match = tagRegex.exec(err)) !== null) tags.push(...), from err[i]
ExtractTags(err, i) ==
    IF i > Len(err) THEN <<>>
    ELSE LET close == TagRegexMatchAt(err, i) IN
         IF close = 0 THEN ExtractTags(err, i + 1)
         ELSE LET spaces == RunLen(err, i + 5, WhiteSpace) IN
              <<[type |-> IF err[i + 1] = "X" THEN "xml" ELSE "dtd",
                 line |-> ParseInt(Slice(err, i + 5 + spaces, close - 1)),
                 label |-> Slice(err, i, close)]>>
                  \o ExtractTags(err, close + 1)

RECURSIVE RemoveTags(_, _)
\* err.replace(tagRegex, ''), from err[i]
RemoveTags(err, i) ==
    IF i > Len(err) THEN <<>>
    ELSE LET close == TagRegexMatchAt(err, i) IN
         IF close = 0 THEN <<err[i]>> \o RemoveTags(err, i + 1)
         ELSE RemoveTags(err, close + 1)

\* cleanMessage
CleanMessage(err) == Trim(RemoveTags(err, 1))

\* The markers of a prefix that hold a line, as the panel's tags.
KnownMarkers(prefix) ==
    LET known == SelectSeq(prefix, LAMBDA m : m.known) IN
    [k \in 1..Len(known) |->
        [type |-> IF known[k].marker = "XML" THEN "xml" ELSE "dtd",
         line |-> known[k].line,
         label |-> MarkerText(known[k])]]

\* C25: from every message of a result the panel extracts the markers the
\* validator put at its start that hold a line, in their order and with
\* their numbers, and nothing else; the text it shows is the message after
\* the markers (after the markers that hold a line, when the XML line is
\* unknown), with the white space at its ends removed.
C25_MarkerRoundTrip ==
    promise = "fulfilled" =>
        \A i \in 1..Len(result.errors) :
            LET e == result.errors[i]
                err == MessageText(e)
            IN  /\ ExtractTags(err, 1) = KnownMarkers(e.prefix)
                /\ IF \A k \in 1..Len(e.prefix) : e.prefix[k].known
                   THEN CleanMessage(err) = Trim(BodyText(e))
                   ELSE EndsWith(CleanMessage(err), Trim(BodyText(e)))

(***************************************************************************)
(* App.  A handler runs in one piece.  handleValidate stops at its await   *)
(* and goes on when the promise of validateXmlWithDtd is resolved: the     *)
(* timer callback of the validator and the rest of handleValidate run one  *)
(* after the other with no other handler in between, so they are one       *)
(* step.  The render that follows a handler is part of its step.           *)
(***************************************************************************)
\* How many items newHistory.slice(0, 10) keeps.
HistoryLimit == 10

\* How often handleValidate is called in a behaviour.
MaxValidations == 11

\* How often the other handlers of App run in a behaviour.
MaxChanges == 3

\* The run variables of validateXmlWithDtd and its timers.
validator == <<pc, dtd, xml, definitions, xmlDoc, lineMap, errors, promise, result,
               resolveCalls, invoked, thrown, timers, settled>>

\* The texts loadSample puts in the editors, with short names: a DTD of an
\* element with a sequence of text-only children and a document valid for it.
SampleDtd ==
    MakeDtd(<<Decl(A, <<LP, B, Comma, C, RP>>, 0), Decl(B, SpecPcdata, 1),
              Decl(C, SpecPcdata, 1)>>, EolLF)

SampleXml == TreeInput(Plain(A, <<Plain(B, <<>>), Plain(C, <<>>)>>), EolLF)

\* The texts the user types into the editors: for the XML editor a document
\* that is not valid for the sample DTD, and a text of white space only.
EditorDtds == { SampleDtd }

EditorXmls ==
    { TreeInput(Plain(A, <<Plain(C, <<>>), Plain(A, <<>>)>>), EolLF),
      FaultInput(<<SP>>, FaultText) }

\* t.errorInput
ErrorInput == [message |-> "errorInput"]

\* !input.trim()
Blank(input) == Trim(input.text) = <<>>

\* The validate control that is never disabled while a text is present.
DisabledWhenEmptyOnly == dtdInput.text = <<>> /\ xmlInput.text = <<>>

\* disabled={loading || (!dtdInput && !xmlInput)}
Disabled == loading \/ (dtdInput.text = <<>> /\ xmlInput.text = <<>>)

\* The value the promise of validateXmlWithDtd(d, x) is resolved with.
ValidateXmlWithDtd(d, x) == RunAlone(d, x)

\* A history that is never cut.
KeepAll(newHistory) == newHistory

\* newHistory.slice(0, 10)
KeepTop(newHistory) ==
    SubSeq(newHistory, 1,
           IF Len(newHistory) < HistoryLimit THEN Len(newHistory) ELSE HistoryLimit)

\* An item made of the texts the editors hold when the run ends.
HistoryItemOfEditors(id, closure, validationResult) ==
    [id |-> id, dtd |-> dtdInput, xml |-> xmlInput, result |-> validationResult]

\* historyItem: dtdInput and xmlInput are those of the closure of the call.
HistoryItem(id, closure, validationResult) ==
    [id |-> id, dtd |-> closure.dtd, xml |-> closure.xml, result |-> validationResult]

\* handleValidate up to its await.
HandleValidate ==
    /\ ~Disabled
    /\ clicks < MaxValidations
    /\ clicks' = clicks + 1
    /\ lastUser' = "validate"
    /\ IF Blank(dtdInput) \/ Blank(xmlInput)
       THEN /\ error' = ErrorInput
            /\ UNCHANGED <<loading, appResult, flights, touched>>
       ELSE /\ loading' = TRUE
            /\ error' = Null
            /\ appResult' = Null
            /\ flights' = Append(flights, [dtd |-> dtdInput, xml |-> xmlInput])
            /\ touched' = FALSE
    /\ UNCHANGED <<dtdInput, xmlInput, history, generated, changes>>
    /\ UNCHANGED <<validator, sheet>>

\* The timer of the oldest call fires, the validator resolves the promise
\* and handleValidate goes on after its await: setResult, setHistory and, in
\* finally, setLoading(false).
Settle ==
    /\ flights # <<>>
    /\ LET closure == Head(flights)
           validationResult == ValidateXmlWithDtd(closure.dtd, closure.xml)
           historyItem == HistoryItem(generated + 1, closure, validationResult)
       IN  /\ appResult' = validationResult
           /\ history' = KeepTop(<<historyItem>> \o history)
    /\ generated' = generated + 1
    /\ loading' = FALSE
    /\ flights' = Tail(flights)
    /\ UNCHANGED <<dtdInput, xmlInput, error, clicks, changes, lastUser, touched>>
    /\ UNCHANGED <<validator, sheet>>

\* What every handler that changes the inputs does to the counters.
Changed(handler) ==
    /\ changes < MaxChanges
    /\ changes' = changes + 1
    /\ lastUser' = handler
    /\ touched' = (touched \/ loading)
    /\ UNCHANGED <<loading, history, flights, clicks, generated>>
    /\ UNCHANGED <<validator, sheet>>

\* onChange={setDtdInput}, also SheetManager's onLoadDtd
OnChangeDtd ==
    /\ \E v \in EditorDtds : v # dtdInput /\ dtdInput' = v
    /\ Changed("edit")
    /\ UNCHANGED <<xmlInput, appResult, error>>

\* onChange={setXmlInput}
OnChangeXml ==
    /\ \E v \in EditorXmls : v # xmlInput /\ xmlInput' = v
    /\ Changed("edit")
    /\ UNCHANGED <<dtdInput, appResult, error>>

LoadSample ==
    /\ dtdInput' = SampleDtd
    /\ xmlInput' = SampleXml
    /\ appResult' = Null
    /\ error' = Null
    /\ Changed("sample")

HandleClear ==
    /\ dtdInput' = MakeDtd(<<>>, EolLF)
    /\ xmlInput' = NoRootInput
    /\ appResult' = Null
    /\ error' = Null
    /\ Changed("clear")

HandleRestoreHistory ==
    /\ \E k \in 1..Len(history) :
          /\ dtdInput' = history[k].dtd
          /\ xmlInput' = history[k].xml
          /\ appResult' = history[k].result
    /\ error' = Null
    /\ Changed("restore")

NextApp ==
    \/ HandleValidate
    \/ Settle
    \/ OnChangeDtd
    \/ OnChangeXml
    \/ LoadSample
    \/ HandleClear
    \/ HandleRestoreHistory

SpecApp == Init /\ [][NextApp]_vars

\* The timer of a call that waits fires: setTimeout(..., 400) always does.
TimerFires == flights # <<>> /\ flights' = Tail(flights)

LiveSpecApp == Init /\ [][NextApp]_vars /\ WF_flights(TimerFires)

\* C26: the history never has more than 10 items; its items are those of the
\* runs that ended last, the newest first (the ids count the runs that
\* ended); a step that ends a run puts the item with that run's result in
\* front and keeps the first 10, and no other step, handleClear and
\* handleRestoreHistory included, changes the history.
C26_HistoryHoldsTheLastTen ==
    /\ [](/\ Len(history) <= 10
          /\ Len(history) = IF generated < 10 THEN generated ELSE 10
          /\ \A k \in 1..Len(history) : history[k].id = generated - k + 1)
    /\ [][IF generated' # generated
          THEN /\ Head(history').result
                     = ValidateXmlWithDtd(Head(flights).dtd, Head(flights).xml)
               /\ history' = SubSeq(<<Head(history')>> \o history, 1, Len(history'))
          ELSE history' = history]_vars

\* Eleven runs have ended, the history holds the last ten, of two different
\* XML texts, and the user has cleared or restored after the first run.
C26_Witness ==
    /\ generated = 11
    /\ Len(history) = 10
    /\ history[1].id = 11
    /\ history[1].xml # history[10].xml
    /\ lastUser \in {"clear", "restore"}

\* C27: the item a run adds to the history holds the DTD and XML texts the
\* run's call of validateXmlWithDtd was given and the result delivered for
\* them, which is the validator's result for these texts, whatever the
\* editors hold when the run ends; and no step alters an item that is in
\* the history.
C27_ItemPairsResultWithItsTexts ==
    /\ [][generated' # generated =>
              /\ Head(history').dtd = Head(flights).dtd
              /\ Head(history').xml = Head(flights).xml
              /\ Head(history').result = appResult'
              /\ appResult' = ValidateXmlWithDtd(Head(flights).dtd, Head(flights).xml)]_vars
    /\ [][\A k \in 1..Len(history') :
              \/ k = 1 /\ generated' # generated
              \/ \E j \in 1..Len(history) : history'[k] = history[j]]_vars

\* The sample was loaded and validated, the inputs were edited or cleared
\* while the run was in flight, and the run has ended: its item holds an XML
\* text that is not the one in the editor.
C27_Witness ==
    /\ ~loading
    /\ touched
    /\ generated = 1
    /\ changes = 2
    /\ lastUser \in {"edit", "clear"}
    /\ history[1].xml = SampleXml
    /\ history[1].xml # xmlInput

\* C28: as long as handleClear is the last handler the user started, no
\* result and no error is displayed and both inputs are empty: a run that
\* was in flight when the user cleared does not display its result.
C28_ClearedStaysCleared ==
    lastUser = "clear" =>
        /\ appResult = Null
        /\ error = Null
        /\ dtdInput.text = <<>>
        /\ xmlInput.text = <<>>

\* C29: loading is true exactly while a call of handleValidate waits at its
\* await, and at most one does; a call with a blank DTD or XML text sets the
\* error and leaves loading, result, history and the waiting calls as they
\* are, any other call sets loading and waits; and whenever loading is true
\* it becomes false again, with a result or an error displayed.
C29_LoadingWhileInFlight ==
    /\ []((loading <=> flights # <<>>) /\ Len(flights) <= 1)
    /\ [][clicks' # clicks =>
              IF Blank(dtdInput) \/ Blank(xmlInput)
              THEN /\ error' = ErrorInput
                   /\ UNCHANGED <<loading, appResult, history, flights>>
              ELSE /\ loading'
                   /\ flights' = Append(flights, [dtd |-> dtdInput, xml |-> xmlInput])]_vars
    /\ loading ~> (~loading /\ (appResult # Null \/ error # Null))

\* A run has ended and displays its result, and a later call with a blank
\* text has set the error.
C29_Witness ==
    /\ ~loading
    /\ generated >= 1
    /\ clicks > generated
    /\ appResult = history[1].result
    /\ error = ErrorInput

(***************************************************************************)
(* SheetManager.  A handler runs in one piece up to an await; the storage  *)
(* answers the calls that wait in any order, each with success or with a   *)
(* failure, and the handler then goes on to its next await or to its end.  *)
(* An entry of ops is a handler that waits: kind is the handler, stage the  *)
(* await it waits at ("write" for saveDtdFile or deleteDtdFile, "fetch"    *)
(* for the fetchDtdFiles of loadFiles).  A file is its name.               *)
(***************************************************************************)
\* How many handlers are started in a behaviour.
MaxOps == 4

\* The file names the user saves under.
FileNames == {"a", "b"}

\* loadFiles up to its await, called by the handler `kind`.
LoadFilesBegin(id, kind) ==
    /\ sheetLoading' = TRUE
    /\ ops' = {o \in ops : o.id # id} \cup {[id |-> id, kind |-> kind, stage |-> "fetch"]}

\* useEffect(() => { loadFiles(); }, []): the first handler of all.
Mount ==
    /\ started = 0
    /\ started' = 1
    /\ LoadFilesBegin(1, "load")
    /\ UNCHANGED <<fileList, store>>
    /\ UNCHANGED <<validator, app>>

\* The refresh control: onClick={loadFiles}, disabled={loading}.
Refresh ==
    /\ started \in 1..(MaxOps - 1)
    /\ ~sheetLoading
    /\ started' = started + 1
    /\ LoadFilesBegin(started + 1, "load")
    /\ UNCHANGED <<fileList, store>>
    /\ UNCHANGED <<validator, app>>

\* handleSaveDtd up to its first await, with a name that is not blank.  The
\* Enter key of the name field calls it whatever loading is.
HandleSaveDtd ==
    /\ started \in 1..(MaxOps - 1)
    /\ started' = started + 1
    /\ sheetLoading' = TRUE
    /\ \E name \in FileNames :
          ops' = ops \cup {[id |-> started + 1, kind |-> "save", stage |-> "write",
                            name |-> name]}
    /\ UNCHANGED <<fileList, store>>
    /\ UNCHANGED <<validator, app>>

\* handleDeleteFile(name) up to its first await, for a file of the list the
\* panel shows, the user confirming.
HandleDeleteFile ==
    /\ started \in 1..(MaxOps - 1)
    /\ started' = started + 1
    /\ sheetLoading' = TRUE
    /\ \E name \in fileList :
          ops' = ops \cup {[id |-> started + 1, kind |-> "delete", stage |-> "write",
                            name |-> name]}
    /\ UNCHANGED <<fileList, store>>
    /\ UNCHANGED <<validator, app>>

\* saveDtdFile or deleteDtdFile is done: the handler goes on with loadFiles.
WriteDone ==
    /\ \E o \in ops :
          /\ o.stage = "write"
          /\ store' = IF o.kind = "save" THEN store \cup {o.name} ELSE store \ {o.name}
          /\ LoadFilesBegin(o.id, o.kind)
    /\ UNCHANGED <<fileList, started>>
    /\ UNCHANGED <<validator, app>>

\* saveDtdFile or deleteDtdFile throws: catch, then finally setLoading(false).
WriteFails ==
    /\ \E o \in ops :
          /\ o.stage = "write"
          /\ ops' = ops \ {o}
    /\ sheetLoading' = FALSE
    /\ UNCHANGED <<fileList, store, started>>
    /\ UNCHANGED <<validator, app>>

\* fetchDtdFiles is done: setFileList(files) and, in finally,
\* setLoading(false); a handler that awaited loadFiles then ends with its
\* own setLoading(false).
FetchDone ==
    /\ \E o \in ops :
          /\ o.stage = "fetch"
          /\ ops' = ops \ {o}
    /\ fileList' = store
    /\ sheetLoading' = FALSE
    /\ UNCHANGED <<store, started>>
    /\ UNCHANGED <<validator, app>>

\* fetchDtdFiles throws: loadFiles catches, then finally setLoading(false).
FetchFails ==
    /\ \E o \in ops :
          /\ o.stage = "fetch"
          /\ ops' = ops \ {o}
    /\ sheetLoading' = FALSE
    /\ UNCHANGED <<fileList, store, started>>
    /\ UNCHANGED <<validator, app>>

NextSheets ==
    \/ Mount
    \/ Refresh
    \/ HandleSaveDtd
    \/ HandleDeleteFile
    \/ WriteDone
    \/ WriteFails
    \/ FetchDone
    \/ FetchFails

SpecSheets == Init /\ [][NextSheets]_vars

\* C30: loading of SheetManager is true whenever a handler waits for the
\* storage (the first load, a refresh, a save or a delete with the reload
\* that follows it), whatever the order of the answers, and false when none
\* waits.
C30_LoadingWhileAnyInFlight ==
    sheetLoading <=> ops # {}

====
